---- MODULE Spec2Model ----
(***************************************************************************)
(* Reconciliation of a Proxmox snapshot into NetBox (ProxSyncBox).         *)
(*                                                                         *)
(* The registry (NetBox) is modelled by its VM records, virtual disks and  *)
(* VM interfaces.  One pass is SyncWorker.run: sync_to_netbox over the     *)
(* selected VMs followed by mark_orphaned_vms_as_deleted over all VMs of   *)
(* the node.  The pynetbox objects the pass holds in memory are modelled   *)
(* separately from the registry records (Record.update sets the attributes *)
(* of the in-memory object and then PATCHes the registry).                 *)
(***************************************************************************)
EXTENDS Integers, Sequences, FiniteSets, TLC

\* ---------------------------------------------------------------- bounds
MaxPasses == 2
MaxFaults == 1
MaxNodeRuns == 2

\* ------------------------------------------------------------- universes
Names == {"web", "db"}
NoVmid == 0
\* size_mb of a disk whose size could not be parsed (None)
NoSize == -1
TargetCluster == "T"
OtherCluster == "O"
NoCluster == "none"


Disk10 == [name |-> "scsi0", size_mb |-> 10]
\* a network interface of the VM's config, with its MAC address
Net0 == [name |-> "net0", mac_address |-> "aa:00"]
\* what fetch_vms_and_lxc reports besides name and vmid: status, disks and
\* network interfaces
Shapes == { [actual_status |-> "running", proxmox_virtual_disks |-> << Disk10 >>,
             proxmox_network_interfaces |-> << Net0 >>],
            [actual_status |-> "stopped", proxmox_virtual_disks |-> << >>,
             proxmox_network_interfaces |-> << >>] }

SourceVM(n, v, sh) ==
    [name |-> n, vmid |-> v, actual_status |-> sh.actual_status,
     proxmox_virtual_disks |-> sh.proxmox_virtual_disks,
     proxmox_network_interfaces |-> sh.proxmox_network_interfaces,
     proxmox_tags |-> ""]

\* the same VM with the 'tags' string of its config
TaggedVM(n, v, sh, tags) == [SourceVM(n, v, sh) EXCEPT !.proxmox_tags = tags]

\* ------------------------------------------------------------- variables
VARIABLES
    registry,        \* NetBox VM records: id -> record
    disks,           \* NetBox virtual disks: set of [vm, name, size]
    ifaces,          \* NetBox VM interfaces: set of [vm, name]
    nbTags,          \* NetBox tags, by name
    clusterPresent,  \* the cluster named netbox_cluster_name exists in NetBox
    nextId,          \* next id NetBox assigns to a VM record
    now,             \* the clock read by datetime.now()
    pc,              \* "idle" | "sync" | "sweep"
    src,             \* all_proxmox_vms of the selected node (orphan check)
    sel,             \* vms_to_sync: the selected VMs, vm_data_list
    idx,             \* position in the running loop
    mem,             \* in-memory pynetbox VM objects of the pass: id -> record
    byName,          \* existing_nb_vms_in_scope_by_name_and_vmid
    byVmid,          \* existing_netbox_vms_by_vmid_cf_in_scope
    cluster_id,      \* the cluster sync_to_netbox obtained, or NoCluster
    sweepList,       \* netbox_vms_in_cluster, as fetched by the sweep
    active,          \* active_proxmox_vm_identities
    processed, succeeded, warns, errs,   \* counters of sync_to_netbox
    marked, sweepErrs,                   \* counters of the sweep
    outcome,         \* signal SyncWorker.run emitted last
    pool,            \* the VMs the node can report
    anyOrder,        \* the node lists its VMs in any order, or by vmid
    passLimit,       \* passes explored
    passNo,          \* passes started
    faults,          \* registry calls made to fail so far
    passFaulty,      \* a registry call of this pass was made to fail
    passRejected,    \* NetBox refused a write of this pass
    nwrites,         \* write calls this pass issued
    log,             \* the writes of the last step
    retired,         \* records the sweep of this pass marked
    regAtStart,      \* the registry as the pass found it
    prev,            \* the pass before this one
    devIfaces,       \* NetBox interfaces of the node's device: name -> mgmt_only
    nodeSrc,         \* proxmox_node_ifaces_data: the names, "" for a missing one
    npc,             \* "idle" | "loop": position in sync_node_interfaces_and_ips
    nidx,            \* position in proxmox_node_ifaces_data
    netbox_ifaces_map,              \* name -> mgmt_only, as fetched
    processed_proxmox_iface_names,
    pending,         \* entries of netbox_ifaces_map the cleanup has yet to visit
    devAtStart,      \* devIfaces as the run found it
    nodeClean,       \* no registry request of the run has failed
    nodeRuns,        \* runs of sync_node_interfaces_and_ips that have ended
    nodeFaults,      \* registry requests of the device made to fail so far
    ips,             \* NetBox IP addresses: set of [address, otype, oid]
    ipLog,           \* the IP step taken last
    nic,             \* the NetBox interface "net0" of the VM, or NoNic
    vlans,           \* VIDs of the VLANs NetBox holds
    macs,            \* NetBox MAC address objects
    nicLog,          \* the interface step taken last
    gui,             \* the main window: buttons, API clients, workers, queued signals
    workerRun,       \* one run() of a worker: where it is and the signals it emitted
    cf,              \* NetBox platforms, tags, clusters and cluster types
    cfLog,           \* the get-or-create call made last
    bootCall,        \* a QEMU config and the disks _process_resource_config made of it
    sizeCall,        \* a size string and what _parse_size_to_mb made of it
    netCall,         \* a net device and what extract_network_interfaces_from_config made of it
    mergeCall        \* a node's interfaces from the API and over SSH, and the merged list

regVars == << registry, disks, ifaces, nbTags, clusterPresent, nextId >>
passVars == << pc, src, sel, idx, mem, byName, byVmid, cluster_id, sweepList, active >>
countVars == << processed, succeeded, warns, errs, marked, sweepErrs, outcome >>
ghostVars == << pool, anyOrder, passLimit, passNo, faults, passFaulty, passRejected, nwrites,
               log, retired, regAtStart, prev >>
vmVars == << regVars, now, passVars, countVars, ghostVars >>
nodeVars == << devIfaces, nodeSrc, npc, nidx, netbox_ifaces_map,
              processed_proxmox_iface_names, pending, devAtStart, nodeClean,
              nodeRuns, nodeFaults >>
ipVars == << ips, ipLog >>
nicVars == << nic, vlans, macs, nicLog >>
guiVars == << gui, workerRun >>
cfVars == << cf, cfLog >>
parseVars == << bootCall, sizeCall, netCall, mergeCall >>
extraVars == << ipVars, nicVars, guiVars, cfVars, parseVars >>
vars == << vmVars, nodeVars, extraVars >>

\* ------------------------------------------------------- pure functions
\* f"{proxmox_name} ({proxmox_vmid})"
Disambiguated(name, vmid) == name \o " (" \o ToString(vmid) \o ")"

\* str.removesuffix
removesuffix(s, suf) ==
    IF Len(suf) > 0 /\ Len(s) >= Len(suf)
       /\ SubSeq(s, Len(s) - Len(suf) + 1, Len(s)) = suf
    THEN SubSeq(s, 1, Len(s) - Len(suf))
    ELSE s

\* str.strip (blanks only)
RECURSIVE strip(_)
strip(s) ==
    IF Len(s) = 0 THEN s
    ELSE IF SubSeq(s, 1, 1) = " " THEN strip(SubSeq(s, 2, Len(s)))
    ELSE IF SubSeq(s, Len(s), Len(s)) = " " THEN strip(SubSeq(s, 1, Len(s) - 1))
    ELSE s

map_proxmox_status_to_netbox(st) ==
    IF st = "running" THEN "active"
    ELSE IF st = "stopped" THEN "offline"
    ELSE "staged"

\* sum of the positive sizes of a source disk list
RECURSIVE calculated_disk_mb_sum(_)
calculated_disk_mb_sum(ds) ==
    IF ds = << >> THEN 0
    ELSE (IF Head(ds).size_mb > 0 THEN Head(ds).size_mb ELSE 0)
         + calculated_disk_mb_sum(Tail(ds))

\* a variant that sends the sum also for an empty disk list
disk_mb_always(ds) == << calculated_disk_mb_sum(ds) >>

\* disk_mb: << >> stands for None (the key is dropped from the payload)
disk_mb(ds) == IF ds = << >> THEN << >> ELSE << calculated_disk_mb_sum(ds) >>

VmidsOf(s) == { s[k].vmid : k \in 1..Len(s) }

RECURSIVE SetToSeq(_)
SetToSeq(S) ==
    IF S = {} THEN << >>
    ELSE LET m == CHOOSE x \in S : \A y \in S : x <= y
         IN << m >> \o SetToSeq(S \ {m})


SubSeqBy(s, I) == LET ks == SetToSeq(I) IN [k \in 1..Len(ks) |-> s[ks[k]]]

\* every list fetch_vms_and_lxc can return from a node whose VMs are in P:
\* one entry per vmid, in the order the API lists them
Snapshots(P, free) ==
    UNION { { s \in [1..k -> P] :
                \A a, b \in 1..k : a < b => /\ s[a].vmid # s[b].vmid
                                            /\ free \/ s[a].vmid < s[b].vmid }
            : k \in 1..Cardinality({ e.vmid : e \in P }) }

\* the checked boxes: a non-empty sublist of all_proxmox_vms, in its order
Selections(s) == { SubSeqBy(s, I) : I \in (SUBSET (1..Len(s))) \ {{}} }

\* ------------------------------------------------- the registry (NetBox)
Rec(n, c, v, vs, ts, st, d) ==
    [name |-> n, cluster |-> c, vmid |-> v, vm_status |-> vs,
     vm_last_sync |-> ts, status |-> st, disk |-> d, tags |-> {}]

\* NetBox refuses a VM name another VM of the same cluster holds
NameHeld(reg, cl, name, self) ==
    \E j \in DOMAIN reg : j # self /\ reg[j].cluster = cl /\ reg[j].name = name

\* NetBox refuses a VM that has no cluster (and no site)
CreateRejected(reg, payload) ==
    \/ payload.cluster = NoCluster
    \/ NameHeld(reg, payload.cluster, payload.name, 0)

\* PATCH of the payload's keys; custom_fields are merged key by key
Patched(r, payload) ==
    [r EXCEPT !.name = payload.name,
              !.status = payload.status,
              !.disk = IF payload.disk = << >> THEN @ ELSE payload.disk,
              !.cluster = IF payload.cluster = NoCluster THEN @ ELSE payload.cluster,
              !.vmid = payload.vmid,
              !.vm_status = payload.vm_status,
              !.vm_last_sync = payload.vm_last_sync,
              !.tags = IF payload.tags = << >> THEN @ ELSE payload.tags[1]]

Extend(f, k, v) == [x \in DOMAIN f \cup {k} |-> IF x = k THEN v ELSE f[x]]
Restrict(f, S) == [x \in S |-> f[x]]
EmptyFn == [x \in {} |-> 0]

\* ------------------------------------------------------ sync_to_netbox
\* get_existing_vms: {vm.name: vm for vm in all()}; of the records that
\* share a name the dict keeps the one listed last
get_existing_vms(reg, failed) ==
    IF failed THEN {}
    ELSE { id \in DOMAIN reg :
             \A j \in DOMAIN reg : reg[j].name = reg[id].name => j <= id }

is_in_scope(r, cl) == IF cl # NoCluster THEN r.cluster = cl ELSE TRUE

\* the nested dict name -> vmid -> object, as a set of entries
ScopeByName(reg, ids) ==
    { [name |-> reg[id].name, vmid |-> reg[id].vmid, id |-> id] : id \in ids }

\* vmid -> object; of several records with one vmid the last one of the
\* iteration is kept, and the iteration order is the registry's
ScopeByVmid(reg, ids) ==
    LET vs == { reg[id].vmid : id \in ids } \ {NoVmid}
    IN { g \in [vs -> ids] : \A v \in vs : reg[g[v]].vmid = v }

B2N(b) == IF b THEN 1 ELSE 0

NoLog == [step |-> "none", vmid |-> NoVmid, had |-> {}, target |-> 0, events |-> << >>]

LocalsReset ==
    /\ mem' = EmptyFn /\ byName' = {} /\ byVmid' = EmptyFn
    /\ sweepList' = << >> /\ active' = {} /\ idx' = 0

\* what the next pass remembers of the pass that ends
LastPass ==
    [src |-> src, sel |-> sel, real |-> passNo >= 1,
     clean |-> ~passFaulty /\ ~passRejected /\ outcome = "complete",
     selV |-> VmidsOf(sel), selV2 |-> prev.selV, retired |-> retired]

\* SyncWorker.run up to the loop of sync_to_netbox
StartSync ==
    /\ pc = "idle"
    /\ passNo < passLimit
    /\ \E s \in Snapshots(pool, anyOrder) : \E chosen \in Selections(s) :
       \E fault \in {"none", "vms", "cluster"} :
        /\ fault # "none" => faults < MaxFaults
        /\ faults' = IF fault = "none" THEN faults ELSE faults + 1
        /\ passFaulty' = (fault # "none")
        /\ passRejected' = FALSE
        /\ passNo' = passNo + 1
        /\ now' = now + 1
        /\ src' = s /\ sel' = chosen
        /\ nwrites' = 0 /\ log' = NoLog
        /\ processed' = 0 /\ succeeded' = 0 /\ warns' = {} /\ errs' = {}
        /\ marked' = 0 /\ sweepErrs' = 0
        /\ UNCHANGED << registry, disks, ifaces, nbTags, nextId, nodeVars, extraVars, pool, anyOrder, passLimit >>
        /\ retired' = {}
        /\ regAtStart' = registry
        /\ prev' = LastPass
        /\ IF fault = "cluster" /\ clusterPresent
           THEN \* clusters.get raises: the exception leaves sync_to_netbox
                /\ pc' = "idle" /\ outcome' = "error"
                /\ cluster_id' = NoCluster
                /\ LocalsReset
                /\ UNCHANGED clusterPresent
           ELSE LET cl == IF clusterPresent \/ fault # "cluster"
                          THEN TargetCluster ELSE NoCluster
                    existing == get_existing_vms(registry, fault = "vms")
                    ids == { id \in existing : is_in_scope(registry[id], cl) }
                IN /\ clusterPresent' = (clusterPresent \/ fault # "cluster")
                   /\ cluster_id' = cl
                   /\ mem' = Restrict(registry, ids)
                   /\ byName' = ScopeByName(registry, ids)
                   /\ byVmid' \in ScopeByVmid(registry, ids)
                   /\ pc' = "sync" /\ idx' = 1
                   /\ outcome' = "none"
                   /\ UNCHANGED << sweepList, active >>

\* lines 368-373: the source name is a key of the name map under another vmid
is_proxmox_name_taken_by_other_vmid(names, proxmox_name, proxmox_vmid) ==
    \E t \in names : t.name = proxmox_name /\ t.vmid # proxmox_vmid

\* lines 365-377
final_target_name_for_netbox_payload(proxmox_name, proxmox_vmid, taken) ==
    IF taken THEN Disambiguated(proxmox_name, proxmox_vmid) ELSE proxmox_name

\* a resolver that disambiguates the newcomer only and renames nobody
vms_to_rename_newcomer_only(names, objs, proxmox_name, proxmox_vmid) == {}

\* lines 382-392: the objects to rename (those without a vmid are skipped)
vms_to_rename_in_netbox(names, objs, proxmox_name, proxmox_vmid) ==
    { t.id : t \in { u \in names : /\ u.name = proxmox_name
                                    /\ u.vmid # proxmox_vmid
                                    /\ objs[u.id].name = proxmox_name
                                    /\ objs[u.id].vmid # NoVmid } }

Event(op, id, name, held, ok) ==
    [op |-> op, id |-> id, name |-> name, held |-> held, ok |-> ok]

\* the name map after a successful rename (lines 399-412): update() has set
\* the object's name already, so old_name_of_conflicting_vm is the new name
\* and the entry under the source name stays
RenamedInCache(names, new_name, other_vmid, id) ==
    { t \in names : ~(t.name = new_name /\ t.vmid = other_vmid) }
        \cup { [name |-> new_name, vmid |-> other_vmid, id |-> id] }

\* lines 388-416 for one conflicting object
RenameOne(w, id, proxmox_name, faulted) ==
    LET other_vmid == w.mem[id].vmid
        new_name == Disambiguated(proxmox_name, other_vmid)
        ok == ~faulted /\ ~NameHeld(w.reg, w.reg[id].cluster, new_name, id)
        ev == Event("rename", id, new_name,
                    NameHeld(w.reg, TargetCluster, new_name, id), ok)
    IN [reg |-> IF ok THEN [w.reg EXCEPT ![id].name = new_name] ELSE w.reg,
        mem |-> [w.mem EXCEPT ![id].name = new_name],
        byName |-> IF ok THEN RenamedInCache(w.byName, new_name, other_vmid, id)
                   ELSE w.byName,
        ev |-> Append(w.ev, ev)]

RECURSIVE RenameAll(_, _, _, _)
RenameAll(w, ids, proxmox_name, failing) ==
    IF ids = {} THEN w
    ELSE LET id == CHOOSE x \in ids : \A y \in ids : x <= y
         IN RenameAll(RenameOne(w, id, proxmox_name, id \in failing),
                      ids \ {id}, proxmox_name, failing)

\* lines 524-534 (None values dropped: disk << >> and cluster NoCluster)
\* line 530: an empty list is replaced by None and the key dropped at line
\* 534; << >> stands for the dropped key
tags_or_none(netbox_tags_payload) ==
    IF netbox_tags_payload = {} THEN << >> ELSE << netbox_tags_payload >>

\* str.split(sep) for a separator of one character
RECURSIVE split(_, _)
split(str, sep) ==
    IF \A k \in 1..Len(str) : SubSeq(str, k, k) # sep THEN << str >>
    ELSE LET k == CHOOSE i \in 1..Len(str) :
                     /\ SubSeq(str, i, i) = sep
                     /\ \A h \in 1..(i - 1) : SubSeq(str, h, h) # sep
         IN << SubSeq(str, 1, k - 1) >> \o split(SubSeq(str, k + 1, Len(str)), sep)

\* line 456: [tag.strip() for tag in proxmox_tags_str.split(';') if tag.strip()]
tag_names(proxmox_tags_str) ==
    IF proxmox_tags_str = "" THEN << >>
    ELSE LET parts == split(proxmox_tags_str, ";")
             kept == SelectSeq(parts, LAMBDA t : strip(t) # "")
         IN [k \in 1..Len(kept) |-> strip(kept[k])]

payload_for_netbox_vm(vm_data, name, cl, ts, netbox_tags_payload) ==
    [name |-> name,
     status |-> map_proxmox_status_to_netbox(vm_data.actual_status),
     disk |-> disk_mb(vm_data.proxmox_virtual_disks),
     cluster |-> cl,
     \* line 530: "tags": netbox_tags_payload if netbox_tags_payload else None
     tags |-> tags_or_none(netbox_tags_payload),
     vmid |-> vm_data.vmid, vm_status |-> "Deployed", vm_last_sync |-> ts]

\* lines 558-570: the fields of the payload against the serialized object
FieldsDiffer(obj, payload) ==
    \/ obj.name # payload.name
    \/ obj.status # payload.status
    \/ payload.disk # << >> /\ obj.disk # payload.disk
    \/ payload.cluster # NoCluster /\ obj.cluster # payload.cluster
    \/ payload.tags # << >> /\ obj.tags # payload.tags[1]
    \/ << obj.vmid, obj.vm_status, obj.vm_last_sync >>
         # << payload.vmid, payload.vm_status, payload.vm_last_sync >>

\* lines 542-570
has_changes(obj, payload) ==
    \/ obj.vm_status = "Deleted" /\ payload.vm_status = "Deployed"
    \/ FieldsDiffer(obj, payload)

\* the record NetBox stores for a created VM
Created(payload) ==
    [Rec(payload.name, payload.cluster, payload.vmid, payload.vm_status,
         payload.vm_last_sync, payload.status, payload.disk)
     EXCEPT !.tags = IF payload.tags = << >> THEN {} ELSE payload.tags[1]]

\* ----------------------------------------------------- sync_vm_interfaces
\* line 136: the source interfaces that are not skipped
with_mac(proxmox_ifaces_data) ==
    { k \in 1..Len(proxmox_ifaces_data) : proxmox_ifaces_data[k].mac_address # "" }

\* lines 128-250, by name: an interface the VM has is kept (found by name),
\* one it has not is created; no interface of the VM is deleted
sync_vm_interfaces(ifs, vm, proxmox_ifaces_data) ==
    ifs \cup { [vm |-> vm, name |-> proxmox_ifaces_data[k].name] :
                 k \in with_mac(proxmox_ifaces_data) }

\* ----------------------------------------------- sync_vm_virtual_disks
DiskRec(vm, name, size) == [vm |-> vm, name |-> name, size |-> size]

\* a variant that takes only an unparsed size for invalid
is_invalid_size_none_only(p_size_mb) == p_size_mb = NoSize

\* line 69: p_size_mb is None or p_size_mb <= 0
is_invalid_size(p_size_mb) == p_size_mb = NoSize \/ p_size_mb <= 0

\* lines 54-103: d.dsk the registry disks, d.map the names still in
\* netbox_disks_map, d.n the calls issued
RECURSIVE DiskLoop(_, _, _)
DiskLoop(ds, vm, d) ==
    IF ds = << >> THEN d
    ELSE LET p == Head(ds)
             cur == { x \in d.dsk : x.vm = vm /\ x.name = p.name }
         IN IF p.name = "" THEN DiskLoop(Tail(ds), vm, d)
            ELSE IF is_invalid_size(p.size_mb)
            THEN DiskLoop(Tail(ds), vm, [d EXCEPT !.map = @ \ {p.name}])
            ELSE IF p.name \in d.map
            THEN DiskLoop(Tail(ds), vm,
                   IF \E x \in cur : x.size # p.size_mb
                   THEN [dsk |-> (d.dsk \ cur) \cup {DiskRec(vm, p.name, p.size_mb)},
                         map |-> d.map \ {p.name}, n |-> d.n + 1]
                   ELSE [d EXCEPT !.map = @ \ {p.name}])
            ELSE DiskLoop(Tail(ds), vm,
                   [dsk |-> d.dsk \cup {DiskRec(vm, p.name, p.size_mb)},
                    map |-> d.map, n |-> d.n + 1])

\* a variant that leaves the records still in netbox_disks_map after the loop
sync_vm_virtual_disks_keeps_orphans(dsk, vm, proxmox_disks_data, filterFails) ==
    IF vm = 0 \/ filterFails THEN [dsk |-> dsk, n |-> 0]
    ELSE LET existing == { x.name : x \in { y \in dsk : y.vm = vm } }
             d == DiskLoop(proxmox_disks_data, vm,
                           [dsk |-> dsk, map |-> existing, n |-> 0])
         IN [dsk |-> d.dsk, n |-> d.n]

\* lines 38-109; a failing filter call returns before any write
sync_vm_virtual_disks(dsk, vm, proxmox_disks_data, filterFails) ==
    IF vm = 0 \/ filterFails THEN [dsk |-> dsk, n |-> 0]
    ELSE LET existing == { x.name : x \in { y \in dsk : y.vm = vm } }
             d == DiskLoop(proxmox_disks_data, vm,
                           [dsk |-> dsk, map |-> existing, n |-> 0])
         IN [dsk |-> { x \in d.dsk : ~(x.vm = vm /\ x.name \in d.map) },
             n |-> d.n + Cardinality(d.map)]

\* a variant that hands the children an object also when the creation failed
synced_netbox_vm_object_for_children_always(operation_is_update, tid, creOk, newId) ==
    IF operation_is_update THEN tid ELSE newId

\* lines 536, 574, 581, 586, 590, 602: the object the children are synced
\* against, 0 for None
synced_netbox_vm_object_for_children(operation_is_update, tid, creOk, newId) ==
    IF operation_is_update THEN tid ELSE IF creOk THEN newId ELSE 0

\* a variant that counts every update, failed or not, as a success
counted_as_succeeded_any_update(operation_is_update, changed, updOk, creOk) ==
    operation_is_update \/ creOk

\* lines 575, 582, 603: successfully_synced_vms += 1
counted_as_succeeded(operation_is_update, changed, updOk, creOk) ==
    (operation_is_update /\ ~changed) \/ updOk \/ creOk

\* one iteration of the loop of sync_to_netbox (lines 355-622)
SyncVM ==
    /\ pc = "sync"
    /\ idx <= Len(sel)
    /\ LET vm_data == sel[idx]
           proxmox_name == vm_data.name
           proxmox_vmid == vm_data.vmid
           netbox_vm_to_update ==
               IF proxmox_vmid \in DOMAIN byVmid THEN byVmid[proxmox_vmid] ELSE 0
           operation_is_update == netbox_vm_to_update # 0
           taken == is_proxmox_name_taken_by_other_vmid(byName, proxmox_name, proxmox_vmid)
           final == final_target_name_for_netbox_payload(proxmox_name, proxmox_vmid, taken)
           toRename == IF taken
                       THEN vms_to_rename_in_netbox(byName, mem, proxmox_name, proxmox_vmid)
                       ELSE {}
           \* get_or_create_netbox_tags: the tags of the source, created
           \* when NetBox has none of that name (or slug)
           names == tag_names(vm_data.proxmox_tags)
           wanted == { names[k] : k \in 1..Len(names) }
           had == { id \in DOMAIN registry : /\ registry[id].cluster = TargetCluster
                                             /\ registry[id].vmid = proxmox_vmid }
       IN \E failing \in SUBSET toRename, fv \in BOOLEAN, fi \in BOOLEAN, fd \in BOOLEAN,
             ftags \in SUBSET (wanted \ nbTags) :
          LET w1 == RenameAll([reg |-> registry, mem |-> mem, byName |-> byName,
                               ev |-> << >>], toRename, proxmox_name, failing)
              payload == payload_for_netbox_vm(vm_data, final, cluster_id, now,
                                               wanted \ ftags)
              tid == netbox_vm_to_update
              changed == operation_is_update /\ has_changes(w1.mem[tid], payload)
              \* Record.update: no request when nothing differs from the record
              sends == changed /\ Patched(w1.reg[tid], payload) # w1.reg[tid]
              newCluster == IF payload.cluster # NoCluster THEN payload.cluster
                            ELSE w1.reg[tid].cluster
              updOk == sends /\ ~fv /\ ~NameHeld(w1.reg, newCluster, final, tid)
              creOk == ~operation_is_update /\ ~fv /\ ~CreateRejected(w1.reg, payload)
              newId == nextId
              reg2 == IF updOk THEN [w1.reg EXCEPT ![tid] = Patched(@, payload)]
                      ELSE IF creOk THEN Extend(w1.reg, newId, Created(payload))
                      ELSE w1.reg
              mem2 == IF changed THEN [w1.mem EXCEPT ![tid] = Patched(@, payload)]
                      ELSE IF creOk THEN Extend(w1.mem, newId, Created(payload))
                      ELSE w1.mem
              names2 == IF creOk
                        THEN RenamedInCache(w1.byName, final, proxmox_vmid, newId)
                        ELSE w1.byName
              vmOk == counted_as_succeeded(operation_is_update, changed, updOk, creOk)
              child == synced_netbox_vm_object_for_children(operation_is_update, tid,
                                                            creOk, newId)
              vmEvent ==
                  IF operation_is_update
                  THEN IF sends
                       THEN << Event("update", tid, final,
                                     NameHeld(w1.reg, TargetCluster, final, tid), updOk) >>
                       ELSE IF changed
                            \* update() returned False: nothing was sent
                            THEN << Event("update_false", tid, final, FALSE, FALSE) >>
                            ELSE << >>
                  ELSE << Event("create", IF creOk THEN newId ELSE 0, final,
                                NameHeld(w1.reg, TargetCluster, final, 0), creOk) >>
              \* interfaces.filter (line 153) is outside every try: when it
              \* raises, the exception leaves sync_to_netbox
              raised == fi
              dres == IF raised THEN [dsk |-> disks, n |-> 0]
                      ELSE sync_vm_virtual_disks(disks, child,
                                                 vm_data.proxmox_virtual_disks, fd)
              newIfs == IF child = 0 \/ raised THEN {}
                        ELSE sync_vm_interfaces(ifaces, child,
                                                vm_data.proxmox_network_interfaces) \ ifaces
              childEvents ==
                  IF child = 0 THEN << >>
                  ELSE << Event("ifaces", child, "", FALSE, ~raised) >>
                       \o (IF raised THEN << >>
                           ELSE << Event("disks", child, "", FALSE, ~fd) >>)
              noValidDisk == /\ vm_data.proxmox_virtual_disks # << >>
                             /\ calculated_disk_mb_sum(vm_data.proxmox_virtual_disks) = 0
              nFaults == Cardinality(failing) + B2N(fv) + B2N(fi) + B2N(fd)
                         + Cardinality(ftags)
              rejected == \/ \E k \in 1..Len(w1.ev) :
                                ~w1.ev[k].ok /\ w1.ev[k].id \notin failing
                          \/ ~fv /\ ~vmOk
          IN /\ fv => (sends \/ ~operation_is_update)
             /\ fi => (child # 0 /\ with_mac(vm_data.proxmox_network_interfaces) # {})
             /\ fd => (child # 0 /\ ~raised)
             /\ faults + nFaults <= MaxFaults
             /\ faults' = faults + nFaults
             /\ passFaulty' = (passFaulty \/ nFaults > 0)
             /\ passRejected' = (passRejected \/ rejected)
             /\ registry' = reg2
             /\ nbTags' = nbTags \cup (wanted \ ftags)
             /\ IF raised
                THEN /\ pc' = "idle" /\ outcome' = "error"
                     /\ mem' = EmptyFn /\ byName' = {} /\ byVmid' = EmptyFn
                     /\ idx' = 0
                ELSE /\ mem' = mem2
                     /\ byName' = names2
                     /\ byVmid' = IF creOk THEN Extend(byVmid, proxmox_vmid, newId)
                                   ELSE byVmid
                     /\ idx' = idx + 1
                     /\ UNCHANGED << pc, outcome >>
             /\ ifaces' = ifaces \cup newIfs
             /\ nextId' = IF creOk THEN nextId + 1 ELSE nextId
             /\ disks' = dres.dsk
             /\ processed' = processed + 1
             /\ succeeded' = IF vmOk THEN succeeded + 1 ELSE succeeded
             /\ errs' = IF vmOk THEN errs ELSE errs \cup {final}
             /\ warns' = warns \cup (IF noValidDisk THEN {final} ELSE {})
                               \cup (IF child = 0 THEN {final} ELSE {})
             /\ nwrites' = nwrites + Len(w1.ev) + B2N(sends \/ ~operation_is_update)
                                  + Cardinality(newIfs) + dres.n
             /\ log' = [step |-> "vm", vmid |-> proxmox_vmid, had |-> had,
                        target |-> netbox_vm_to_update,
                        events |-> w1.ev \o vmEvent \o childEvents]
             /\ UNCHANGED << clusterPresent, now, src, sel, cluster_id,
                             sweepList, active, marked, sweepErrs,
                             nodeVars, extraVars, pool, anyOrder, passLimit, passNo, prev, retired, regAtStart >>

\* ----------------------------------------- mark_orphaned_vms_as_deleted
\* lines 660-677
is_orphaned(r, identities) ==
    ~ \/ r.vmid # NoVmid /\ << r.name, r.vmid >> \in identities
      \/ /\ r.vmid # NoVmid
         /\ << strip(removesuffix(r.name, " (" \o ToString(r.vmid) \o ")")), r.vmid >>
                \in identities

\* a sweep that marks every orphan, the retired ones again
must_mark_again(r, identities) == is_orphaned(r, identities)

\* lines 679-681
must_mark(r, identities) == is_orphaned(r, identities) /\ r.vm_status # "Deleted"

\* lines 684-686: the custom fields the sweep sends
MarkedDeleted(r, ts) == [r EXCEPT !.vm_status = "Deleted", !.vm_last_sync = ts]

\* a sweep that deletes the orphan's record
SweepUpdate_deleting(reg, id, ts) == Restrict(reg, DOMAIN reg \ {id})

\* the registry after nb_vm.update of the sweep
SweepUpdate(reg, id, ts) == [reg EXCEPT ![id] = MarkedDeleted(@, ts)]

\* sync_to_netbox has returned; SyncWorker.run lines 709-719 and
\* mark_orphaned_vms_as_deleted lines 640-657
SweepStart ==
    /\ pc = "sync"
    /\ idx > Len(sel)
    /\ \E fault \in BOOLEAN :
        /\ fault => faults < MaxFaults
        /\ faults' = faults + B2N(fault)
        /\ passFaulty' = (passFaulty \/ fault)
        /\ log' = NoLog
        /\ IF fault \/ ~clusterPresent
           THEN \* clusters.get or filter raises, or the sweep returns None and
                \* the unpacking in SyncWorker.run raises
                /\ pc' = "idle" /\ outcome' = "error"
                /\ LocalsReset
           ELSE /\ active' = { << src[k].name, src[k].vmid >> : k \in 1..Len(src) }
                /\ sweepList' = SetToSeq({ id \in DOMAIN registry :
                                             registry[id].cluster = TargetCluster })
                /\ pc' = "sweep" /\ idx' = 1
                /\ mem' = EmptyFn /\ byName' = {} /\ byVmid' = EmptyFn
                /\ UNCHANGED outcome
        /\ UNCHANGED << regVars, now, src, sel, cluster_id, processed, succeeded,
                        warns, errs, marked, sweepErrs, nodeVars, extraVars, pool, anyOrder, passLimit, passNo,
                        passRejected, nwrites, prev, retired, regAtStart >>

\* one iteration of the loop of the sweep (lines 659-690)
SweepVM ==
    /\ pc = "sweep"
    /\ idx <= Len(sweepList)
    /\ LET id == sweepList[idx]
           nb_vm == registry[id]
       IN \E fault \in BOOLEAN :
           /\ fault => (faults < MaxFaults /\ must_mark(nb_vm, active))
           /\ faults' = faults + B2N(fault)
           /\ passFaulty' = (passFaulty \/ fault)
           /\ IF must_mark(nb_vm, active)
              THEN /\ registry' = IF fault THEN registry ELSE SweepUpdate(registry, id, now)
                   /\ marked' = IF fault THEN marked ELSE marked + 1
                   /\ sweepErrs' = IF fault THEN sweepErrs + 1 ELSE sweepErrs
                   /\ retired' = IF fault THEN retired ELSE retired \cup {id}
                   /\ nwrites' = nwrites + 1
                   /\ log' = [step |-> "sweep", vmid |-> nb_vm.vmid, had |-> {id},
                              target |-> id, events |-> << Event("mark", id, nb_vm.name, FALSE, ~fault) >>]
              ELSE /\ UNCHANGED << registry, marked, sweepErrs, retired, nwrites >>
                   /\ log' = [step |-> "sweep", vmid |-> nb_vm.vmid, had |-> {id},
                              target |-> id, events |-> << >>]
           /\ idx' = idx + 1
           /\ UNCHANGED << disks, ifaces, nbTags, clusterPresent, nextId, now, pc, src, sel, mem,
                           byName, byVmid, cluster_id, sweepList, active, processed,
                           succeeded, warns, errs, outcome, nodeVars, extraVars, pool, anyOrder, passLimit, passNo,
                           passRejected, prev, regAtStart >>

\* the sweep returns its counts and SyncWorker.run emits sync_complete
PassEnd ==
    /\ pc = "sweep"
    /\ idx > Len(sweepList)
    /\ pc' = "idle" /\ outcome' = "complete"
    /\ LocalsReset
    /\ log' = NoLog
    /\ UNCHANGED << regVars, now, src, sel, cluster_id, processed, succeeded, warns,
                    errs, marked, sweepErrs, nodeVars, extraVars, pool, anyOrder, passLimit, passNo, faults,
                    passFaulty, passRejected, nwrites, prev, retired, regAtStart >>


\* ------------------------------------------- sync_node_interfaces_and_ips
IfNames == {"eth0", "vmbr0", "mgmt0"}

\* the interface lists a node can report; "" stands for an entry without name
NodeSources ==
    { SelectSeq(<< "eth0", "vmbr0", "mgmt0", "" >>, LAMBDA x : x \in S) :
        S \in SUBSET (IfNames \cup {""}) }

Without(f, n) == [x \in DOMAIN f \ {n} |-> f[x]]

\* a variant that protects no interface
is_mgmt_only_never(mgmt_only) == FALSE

\* lines 853-858: the 'mgmt_only' attribute is True (the "YES" branch needs a
\* string value, which the boolean field of NetBox never has)
is_mgmt_only(mgmt_only) == mgmt_only = TRUE

\* lines 728-739: a run begins and fetches the device's interfaces
NodeStart ==
    /\ npc = "idle"
    /\ nodeRuns < MaxNodeRuns
    /\ \E data \in NodeSources, fails \in BOOLEAN :
        /\ fails => nodeFaults < MaxFaults
        /\ nodeFaults' = nodeFaults + B2N(fails)
        /\ nodeSrc' = data
        /\ devAtStart' = devIfaces
        /\ nodeClean' = ~fails
        /\ processed_proxmox_iface_names' = {}
        /\ IF fails
           \* lines 735-737: logged, return
           THEN /\ nodeRuns' = nodeRuns + 1
                /\ netbox_ifaces_map' = << >> /\ pending' = {}
                /\ nidx' = 0
                /\ UNCHANGED npc
           ELSE /\ netbox_ifaces_map' = devIfaces
                /\ pending' = DOMAIN devIfaces
                /\ nidx' = 1
                /\ npc' = "loop"
                /\ UNCHANGED nodeRuns
    /\ UNCHANGED << devIfaces, vmVars, extraVars >>

\* lines 741-845 with get_or_create_device_interface: one source interface
NodeIface ==
    /\ npc = "loop"
    /\ nidx <= Len(nodeSrc)
    /\ LET p_name == nodeSrc[nidx]
       IN \E raises \in BOOLEAN, fails \in BOOLEAN :
          /\ (raises \/ fails) => (p_name # "" /\ nodeFaults < MaxFaults)
          /\ ~(raises /\ fails)
          /\ fails => p_name \notin DOMAIN devIfaces
          /\ nodeFaults' = nodeFaults + B2N(raises \/ fails)
          /\ nodeClean' = (nodeClean /\ ~raises /\ ~fails)
          /\ processed_proxmox_iface_names' =
                 IF p_name = "" THEN processed_proxmox_iface_names
                 ELSE processed_proxmox_iface_names \cup {p_name}
          /\ IF raises
             \* netbox_handler.py line 479 is outside every try: the
             \* exception leaves sync_node_interfaces_and_ips
             THEN /\ npc' = "idle" /\ nidx' = 0 /\ pending' = {}
                  /\ nodeRuns' = nodeRuns + 1
                  /\ UNCHANGED devIfaces
             ELSE /\ nidx' = nidx + 1
                  /\ devIfaces' =
                        IF p_name = "" \/ p_name \in DOMAIN devIfaces \/ fails
                        THEN devIfaces
                        ELSE Extend(devIfaces, p_name, FALSE)
                  /\ UNCHANGED << npc, pending, nodeRuns >>
    /\ UNCHANGED << nodeSrc, netbox_ifaces_map, devAtStart, vmVars, extraVars >>

\* lines 849-864: one entry of netbox_ifaces_map in the cleanup loop
NodeDelete ==
    /\ npc = "loop"
    /\ nidx > Len(nodeSrc)
    /\ \E iface_name_to_delete \in pending, fails \in BOOLEAN :
        LET deleting ==
                /\ iface_name_to_delete \notin processed_proxmox_iface_names
                /\ ~is_mgmt_only(netbox_ifaces_map[iface_name_to_delete])
        IN /\ fails => (deleting /\ nodeFaults < MaxFaults)
           /\ nodeFaults' = nodeFaults + B2N(fails)
           /\ nodeClean' = (nodeClean /\ ~fails)
           /\ pending' = pending \ {iface_name_to_delete}
           /\ devIfaces' = IF deleting /\ ~fails
                           THEN Without(devIfaces, iface_name_to_delete)
                           ELSE devIfaces
    /\ UNCHANGED << nodeSrc, npc, nidx, netbox_ifaces_map,
                    processed_proxmox_iface_names, devAtStart, nodeRuns, vmVars, extraVars >>

\* the cleanup loop is over: sync_node_interfaces_and_ips returns
NodeReturn ==
    /\ npc = "loop"
    /\ nidx > Len(nodeSrc)
    /\ pending = {}
    /\ npc' = "idle" /\ nidx' = 0
    /\ nodeRuns' = nodeRuns + 1
    /\ UNCHANGED << devIfaces, nodeSrc, netbox_ifaces_map,
                    processed_proxmox_iface_names, pending, devAtStart, nodeClean,
                    nodeFaults, vmVars, extraVars >>

\* -------------------------------------------------- IP address handling
NETBOX_OBJECT_TYPE_VMINTERFACE == "virtualization.vminterface"
NETBOX_OBJECT_TYPE_DCIM_INTERFACE == "dcim.interface"

\* addresses of 10.0.0.0/24 by their last octet, with prefix lengths 24..32
Cidr(ip, len) == [ip |-> ip, len |-> len]
NoCidr == Cidr(0, 0)

\* a netmask as Proxmox reports it: a prefix length, or a dotted mask
\* 255.255.255.v given by its last octet
Prefix(n) == [form |-> "prefix", v |-> n]
Dotted(v) == [form |-> "dotted", v |-> v]

\* ipaddress: network.network_address and network.broadcast_address of an
\* interface address
network_address(a) == a.ip - (a.ip % (2 ^ (32 - a.len)))
broadcast_address(a) == network_address(a) + (2 ^ (32 - a.len)) - 1

\* ipaddress.ip_interface(f"{p_ip}/{p_netmask}"); NoCidr stands for the
\* ValueError raised for a mask whose one bits are not contiguous
ip_interface(p_ip, p_netmask) ==
    IF p_netmask.form = "prefix" THEN Cidr(p_ip, p_netmask.v)
    ELSE IF \E k \in 0..8 : 256 - (2 ^ k) = p_netmask.v
    THEN Cidr(p_ip, 32 - (CHOOSE k \in 0..8 : 256 - (2 ^ k) = p_netmask.v))
    ELSE NoCidr

\* the addresses of 10.0.0.4/30 and a host address with a /32 mask
Cidrs == { Cidr(4, 30), Cidr(5, 30), Cidr(7, 30), Cidr(5, 32) }

\* what a node reports: an address and a netmask (255.255.255.252 for /30,
\* 255.255.255.1 for a mask that is none)
NodeAddresses ==
    { [ip_address |-> h, netmask |-> m] : h \in {4, 5, 7}, m \in {Prefix(30), Dotted(252)} }
      \cup { [ip_address |-> 5, netmask |-> m] : m \in {Prefix(32), Dotted(1)} }

IfaceIds == {1, 2}
IpOwners == { << t, i >> : t \in {NETBOX_OBJECT_TYPE_VMINTERFACE, NETBOX_OBJECT_TYPE_DCIM_INTERFACE},
                           i \in IfaceIds } \cup { << "", 0 >> }

IpRec(a, otype, oid) == [address |-> a, otype |-> otype, oid |-> oid]

\* the address tables a registry can hold: one record per address at most
IpTables ==
    { { IpRec(a, f[a][1], f[a][2]) : a \in S } :
        f \in [Cidrs -> IpOwners], S \in SUBSET Cidrs }

NoIpLog == [path |-> "none", iface |-> 0, otype |-> "", X |-> NoCidr, err |-> FALSE]

\* a variant that never reassigns an address that exists
needs_reassign_never(ip_address_obj, id, otype) == FALSE

\* lines 258-259, 821-822: the address is assigned to something else
needs_reassign(ip_address_obj, id, otype) ==
    ip_address_obj.oid # id \/ ip_address_obj.otype # otype

\* lines 255-276, 819-838: ip_addresses.get, then update or create; a
\* failing request or a get() with several results is caught and logged
AssignIp(table, X, id, otype, fault) ==
    LET found == { r \in table : r.address = X }
    IN IF fault = "get" \/ Cardinality(found) > 1
       THEN [ips |-> table, err |-> TRUE]
       ELSE IF found # {}
       THEN LET ip_address_obj == CHOOSE r \in found : TRUE
            IN IF needs_reassign(ip_address_obj, id, otype)
               THEN IF fault = "write" THEN [ips |-> table, err |-> TRUE]
                    ELSE [ips |-> (table \ found) \cup {IpRec(X, otype, id)},
                          err |-> FALSE]
               ELSE [ips |-> table, err |-> FALSE]
       ELSE IF fault = "write" THEN [ips |-> table, err |-> TRUE]
       ELSE [ips |-> table \cup {IpRec(X, otype, id)}, err |-> FALSE]

ipRest == << vmVars, nodeVars, nicVars, guiVars, cfVars, parseVars >>

\* sync_vm_interfaces lines 252-280: Step 3 for one interface
VmIpStep ==
    /\ \E id \in IfaceIds, p_ip_cidr \in Cidrs, fault \in {"none", "get", "write"} :
        LET r == AssignIp(ips, p_ip_cidr, id, NETBOX_OBJECT_TYPE_VMINTERFACE, fault)
        IN /\ ips' = r.ips
           /\ ipLog' = [path |-> "vm", iface |-> id,
                        otype |-> NETBOX_OBJECT_TYPE_VMINTERFACE,
                        X |-> p_ip_cidr, err |-> r.err]
    /\ UNCHANGED ipRest

\* sync_node_interfaces_and_ips lines 804-843: the IP block for one interface
NodeIpStep ==
    /\ \E id \in IfaceIds, p \in NodeAddresses, fault \in {"none", "get", "write"} :
        LET ip_interface_obj == ip_interface(p.ip_address, p.netmask)
            skipped == \/ ip_interface_obj = NoCidr
                       \/ ip_interface_obj.ip = network_address(ip_interface_obj)
                       \/ ip_interface_obj.ip = broadcast_address(ip_interface_obj)
            r == IF skipped THEN [ips |-> ips, err |-> ip_interface_obj = NoCidr]
                 ELSE AssignIp(ips, ip_interface_obj, id,
                               NETBOX_OBJECT_TYPE_DCIM_INTERFACE, fault)
        IN /\ skipped => fault = "none"
           /\ ips' = r.ips
           /\ ipLog' = [path |-> "node", iface |-> id,
                        otype |-> NETBOX_OBJECT_TYPE_DCIM_INTERFACE,
                        X |-> ip_interface_obj, err |-> r.err]
    /\ UNCHANGED ipRest

\* ------------------------------------------- interfaces of a VM: MAC, VLAN
\* str.upper() on the MAC strings of the model
upper(mac_str) == IF mac_str = "aa:01" THEN "AA:01" ELSE mac_str

\* p_mac of a source interface; "" for an interface without a MAC
SourceMacs == { "", "aa:01", "AA:02" }
\* p_vlan_tag of a source interface; 0 for none
SourceTagsVlan == { 0, 10, 20 }

\* the id NetBox gives the VLAN object of a VID
VlanId(vid) == vid \div 10

NicId == 1
MacOwners == { << "", 0 >>, << NETBOX_OBJECT_TYPE_VMINTERFACE, NicId >>,
               << NETBOX_OBJECT_TYPE_VMINTERFACE, 2 >>,
               << NETBOX_OBJECT_TYPE_DCIM_INTERFACE, NicId >> }

MacRec(id, mac_address, otype, oid) ==
    [id |-> id, mac_address |-> mac_address, assigned_object_type |-> otype,
     assigned_object_id |-> oid]

\* MAC address tables of a registry: none, object 1 holding AA:01 for any
\* owner, and with it object 2 holding AA:02, unassigned or of another interface
MacTables ==
    { {} }
      \cup { { MacRec(1, "AA:01", o[1], o[2]) } : o \in MacOwners }
      \cup { { MacRec(1, "AA:01", o[1], o[2]), MacRec(2, "AA:02", q[1], q[2]) } :
               o \in MacOwners,
               q \in { << "", 0 >>, << NETBOX_OBJECT_TYPE_VMINTERFACE, 2 >> } }

NoNic == [exists |-> FALSE, mode |-> "none", untagged_vlan |-> 0, primary_mac_address |-> 0]
NicRec(mode, untagged_vlan, primary_mac_address) ==
    [exists |-> TRUE, mode |-> mode, untagged_vlan |-> untagged_vlan,
     primary_mac_address |-> primary_mac_address]

MaxNicSteps == 2

NoNicLog == [n |-> 0, p_mac |-> "", p_vlan_tag |-> 0, existed |-> FALSE,
             resolved |-> FALSE, ret |-> 0, err |-> FALSE,
             nic |-> NoNic, macs |-> {}]

\* a variant that reuses any object holding the MAC string
correctly_assigned_any(obj, assign_to_interface_id, assigned_object_type) == TRUE

\* netbox_handler.py lines 221-240: the object is assigned to the target
\* interface (both type strings are lower case already)
correctly_assigned(obj, assign_to_interface_id, assigned_object_type) ==
    /\ obj.assigned_object_id # 0 /\ obj.assigned_object_type # ""
    /\ obj.assigned_object_id = assign_to_interface_id
    /\ obj.assigned_object_type = assigned_object_type

\* get_or_create_and_assign_netbox_mac_address: the object returned (ret,
\* 0 for None), the table it leaves and the re-fetches it made.
\* fault: "filter" the search fails, "create" the create fails, "unique" the
\* create is refused for uniqueness, "assign" the assignment fails;
\* others: objects another writer adds between the search and the create
get_or_create_and_assign_netbox_mac_address(table, mac_str, assign_to_interface_id, assigned_object_type, fault, others) ==
    LET mac_str_upper == upper(mac_str)
        mac_objects_from_filter == { m \in table : m.mac_address = mac_str_upper }
        hits == { m \in mac_objects_from_filter :
                    correctly_assigned(m, assign_to_interface_id, assigned_object_type) }
        newId == 1 + Cardinality(table)
    IN IF fault = "filter" THEN [ret |-> 0, macs |-> table, refetch |-> 0, found |-> FALSE]
       ELSE IF hits # {}
       THEN [ret |-> (CHOOSE m \in hits : \A o \in hits : m.id <= o.id).id,
             macs |-> table, refetch |-> 0, found |-> FALSE]
       ELSE IF fault = "create" THEN [ret |-> 0, macs |-> table, refetch |-> 0, found |-> FALSE]
       ELSE IF fault = "unique"
       THEN [ret |-> 0, macs |-> table \cup others, refetch |-> 1,
             found |-> \E m \in table \cup others : m.mac_address = mac_str_upper]
       ELSE IF fault = "assign"
       THEN [ret |-> 0, macs |-> table \cup { MacRec(newId, mac_str_upper, "", 0) },
             refetch |-> 0, found |-> FALSE]
       ELSE [ret |-> newId,
             macs |-> table \cup { MacRec(newId, mac_str_upper, assigned_object_type,
                                          assign_to_interface_id) },
             refetch |-> 0, found |-> FALSE]

\* the faults a call can meet: NetBox refuses a create for uniqueness only
\* when an object with the MAC string exists
MacFaults(table, mac_str) ==
    { "none", "filter", "create", "assign" }
      \cup (IF \E m \in table : m.mac_address = upper(mac_str) THEN { "unique" } ELSE {})

\* get_or_create_netbox_vlan: the id of the VLAN (0 for None) and the VIDs
\* NetBox holds afterwards
get_or_create_netbox_vlan(vids, vlan_id, fault) ==
    IF vlan_id = 0 THEN [id |-> 0, vlans |-> vids]
    ELSE IF vlan_id \in vids THEN [id |-> VlanId(vlan_id), vlans |-> vids]
    ELSE IF fault THEN [id |-> 0, vlans |-> vids]
    ELSE [id |-> VlanId(vlan_id), vlans |-> vids \cup { vlan_id }]

\* sync_orchestrator.py line 190: the test before the VLAN settings of an
\* interface without a tag are cleared
clears_vlan(nb_iface_obj) ==
    nb_iface_obj.untagged_vlan # 0 \/ nb_iface_obj.mode = "access"

\* lines 179-192: vlan_payload_for_iface_update, << >> for an empty one
vlan_payload_for_iface_update(nb_iface_obj, p_vlan_tag, netbox_vlan_id) ==
    IF p_vlan_tag # 0
    THEN IF netbox_vlan_id # 0
              /\ (nb_iface_obj.mode # "access" \/ nb_iface_obj.untagged_vlan # netbox_vlan_id)
         THEN << [mode |-> "access", untagged_vlan |-> netbox_vlan_id] >>
         ELSE << >>
    ELSE IF clears_vlan(nb_iface_obj)
         THEN << [mode |-> "none", untagged_vlan |-> 0] >>
         ELSE << >>

\* line 195: desired_primary_mac_id, 0 for None
desired_primary_mac_id(nb_iface_obj, mac_object_for_primary_link) ==
    mac_object_for_primary_link

nicRest == << vmVars, nodeVars, ipVars, guiVars, cfVars, parseVars >>

\* sync_vm_interfaces lines 124-250 for the source interface "net0": the
\* body of the loop up to Step 3
VmIfaceStep ==
    /\ nicLog.n < MaxNicSteps
    /\ \E p_mac \in SourceMacs, p_vlan_tag \in SourceTagsVlan,
          vfault \in BOOLEAN, wfault \in BOOLEAN, lfault \in BOOLEAN :
       \E mfault \in MacFaults(macs, p_mac) :
        LET entry == [n |-> nicLog.n + 1, p_mac |-> p_mac, p_vlan_tag |-> p_vlan_tag,
                      existed |-> nic.exists, resolved |-> FALSE, ret |-> 0,
                      err |-> FALSE, nic |-> nic, macs |-> macs]
            v == get_or_create_netbox_vlan(vlans, p_vlan_tag, vfault)
            verr == p_vlan_tag # 0 /\ v.id = 0
        IN IF p_mac = ""
           THEN \* line 133: skipped
                /\ ~vfault /\ ~wfault /\ ~lfault /\ mfault = "none"
                /\ nicLog' = entry
                /\ UNCHANGED << nic, vlans, macs >>
           ELSE IF nic.exists
           THEN LET m == get_or_create_and_assign_netbox_mac_address(
                             macs, p_mac, NicId, NETBOX_OBJECT_TYPE_VMINTERFACE, mfault, {})
                    vp == vlan_payload_for_iface_update(nic, p_vlan_tag, v.id)
                    desired == desired_primary_mac_id(nic, m.ret)
                    empty == vp = << >> /\ nic.primary_mac_address = desired
                    updated == [nic EXCEPT
                                  !.mode = IF vp = << >> THEN @ ELSE vp[1].mode,
                                  !.untagged_vlan = IF vp = << >> THEN @ ELSE vp[1].untagged_vlan,
                                  !.primary_mac_address = desired]
                IN /\ ~lfault
                   /\ wfault => ~empty
                   /\ vfault => (p_vlan_tag # 0 /\ p_vlan_tag \notin vlans)
                   /\ macs' = m.macs
                   /\ vlans' = v.vlans
                   /\ nic' = IF empty \/ wfault THEN nic ELSE updated
                   /\ nicLog' = [entry EXCEPT !.resolved = TRUE, !.ret = m.ret,
                                              !.err = m.ret = 0 \/ verr \/ wfault]
           ELSE \* lines 206-248: a new interface, then its MAC and the link
                LET created == NicRec(IF v.id # 0 THEN "access" ELSE "none", v.id, 0)
                    m == get_or_create_and_assign_netbox_mac_address(
                             macs, p_mac, NicId, NETBOX_OBJECT_TYPE_VMINTERFACE, mfault, {})
                IN /\ vfault => (p_vlan_tag # 0 /\ p_vlan_tag \notin vlans)
                   /\ vlans' = v.vlans
                   /\ IF wfault
                      THEN /\ mfault = "none" /\ ~lfault
                           /\ UNCHANGED << nic, macs >>
                           /\ nicLog' = [entry EXCEPT !.err = TRUE]
                      ELSE /\ lfault => m.ret # 0
                           /\ macs' = m.macs
                           /\ nic' = IF m.ret # 0 /\ ~lfault
                                     THEN [created EXCEPT !.primary_mac_address = m.ret]
                                     ELSE created
                           /\ nicLog' = [entry EXCEPT !.resolved = TRUE, !.ret = m.ret,
                                                      !.err = m.ret = 0 \/ verr \/ lfault]
    /\ UNCHANGED nicRest


\* ------------------------------------------------------ the main window
Workers == { "load", "sync", "node" }

MaxRunning == 2
MaxQueue == 4

\* _update_button_states
proxmox_ready(g) == g.selected_node_config /\ g.proxmox_api
netbox_ready(g) == g.netbox_api
update_button_states(g) ==
    [g EXCEPT !.load_vms_button = proxmox_ready(g),
              !.sync_node_to_device_button = proxmox_ready(g) /\ netbox_ready(g),
              !.sync_button = IF netbox_ready(g) THEN @ ELSE FALSE]

\* the nodes of the configuration, by their place in the combobox
Nodes == { 1, 2 }

\* the window after __init__: _load_initial_configs has selected the first
\* node, and either API client may have failed to connect. node is the node
\* of selected_node_config, listed_node the node all_proxmox_vms was loaded
\* from (0 for none), load_nodes the nodes the running LoadVMsWorkers were
\* made for, sync_list_node and sync_scope_node the node whose VM list and
\* the node whose netbox_cluster_name the SyncWorker started last was given
GuiStates ==
    { update_button_states(
        [load_vms_button |-> FALSE, sync_button |-> FALSE,
         sync_node_to_device_button |-> FALSE,
         netbox_api |-> nb, proxmox_api |-> px, selected_node_config |-> TRUE,
         listed |-> FALSE, checked |-> FALSE,
         running |-> [w \in Workers |-> 0], queue |-> << >>,
         node |-> 1, listed_node |-> 0, load_nodes |-> << >>,
         sync_list_node |-> 0, sync_scope_node |-> 0]) :
      nb \in BOOLEAN, px \in BOOLEAN }

RunningWorkers(g) == g.running["load"] + g.running["sync"] + g.running["node"]

\* a worker can be started: the model keeps room for its signals
CanStart(g) == RunningWorkers(g) < MaxRunning /\ Len(g.queue) + 2 * (RunningWorkers(g) + 1) <= MaxQueue

guiRest == << vmVars, nodeVars, ipVars, nicVars, cfVars, parseVars >>

\* on_node_selected: the user picks a node in the combobox
on_node_selected ==
    /\ \E px \in BOOLEAN : \E n \in Nodes \ { gui.node } :
        gui' = update_button_states(
                 [gui EXCEPT !.proxmox_api = px, !.listed = FALSE, !.checked = FALSE,
                             !.sync_button = FALSE, !.node = n, !.listed_node = 0])
    /\ UNCHANGED << guiRest, workerRun >>

\* the user checks or unchecks VMs of the list (select_all_vms,
\* deselect_all_vms, or single checkboxes)
select_vms ==
    /\ gui.listed
    /\ \E c \in BOOLEAN : gui' = [gui EXCEPT !.checked = c]
    /\ UNCHANGED << guiRest, workerRun >>

\* start_load_vms_thread: a click on the enabled load button
start_load_vms_thread ==
    /\ gui.load_vms_button
    /\ IF ~gui.proxmox_api \/ ~gui.selected_node_config
       THEN gui' = update_button_states(gui)
       ELSE /\ CanStart(gui)
            /\ gui' = [gui EXCEPT !.load_vms_button = FALSE, !.sync_button = FALSE,
                                  !.listed = FALSE, !.checked = FALSE,
                                  !.running["load"] = @ + 1,
                                  !.load_nodes = Append(@, gui.node)]
    /\ UNCHANGED << guiRest, workerRun >>

\* start_sync_thread: a click on the enabled sync button
start_sync_thread ==
    /\ gui.sync_button
    /\ IF ~gui.checked \/ ~gui.netbox_api \/ ~gui.selected_node_config
       THEN UNCHANGED gui
       ELSE /\ CanStart(gui)
            /\ gui' = [gui EXCEPT !.sync_button = FALSE, !.load_vms_button = FALSE,
                                  !.running["sync"] = @ + 1,
                                  !.sync_list_node = gui.listed_node,
                                  !.sync_scope_node = gui.node]
    /\ UNCHANGED << guiRest, workerRun >>

\* start_sync_node_to_device_thread: a click on the enabled node button
start_sync_node_to_device_thread ==
    /\ gui.sync_node_to_device_button
    /\ IF ~gui.netbox_api \/ ~gui.proxmox_api
       THEN UNCHANGED gui
       ELSE IF ~gui.selected_node_config
       THEN gui' = update_button_states(gui)
       ELSE /\ CanStart(gui)
            /\ gui' = [gui EXCEPT !.sync_node_to_device_button = FALSE,
                                  !.load_vms_button = FALSE, !.sync_button = FALSE,
                                  !.running["node"] = @ + 1]
    /\ UNCHANGED << guiRest, workerRun >>

\* the signals run() of a worker can emit before finished
Results(w) ==
    IF w = "load" THEN { "vm_list_ready", "vm_list_empty", "error" }
    ELSE IF w = "sync" THEN { "sync_complete", "error" }
    ELSE { "node_sync_complete", "error" }

\* LoadVMsWorker.run, SyncWorker.run, NodeSyncWorker.run: the worker emits its
\* result and finished, which are queued for the main thread, and ends
worker_run ==
    /\ \E w \in Workers : \E res \in Results(w) :
        /\ gui.running[w] > 0
        /\ \E k \in 1..Len(gui.load_nodes) + 1 :
              LET of_load == w = "load"
                  n == IF of_load THEN gui.load_nodes[k] ELSE 0
              IN /\ IF of_load THEN k <= Len(gui.load_nodes) ELSE k = 1
                 /\ gui' = [gui EXCEPT
                              !.running[w] = @ - 1,
                              !.load_nodes = IF of_load
                                             THEN SubSeq(@, 1, k - 1) \o SubSeq(@, k + 1, Len(@))
                                             ELSE @,
                              !.queue = @ \o << << w, res, n >>, << w, "finished", n >> >>]
    /\ UNCHANGED << guiRest, workerRun >>

\* the slot the main thread runs for a queued signal
slot(g, w, sig, n) ==
    IF sig = "vm_list_ready"          \* populate_vm_list_display
    THEN [g EXCEPT !.listed = TRUE, !.checked = FALSE, !.sync_button = netbox_ready(g),
                   !.listed_node = n]
    ELSE IF sig = "vm_list_empty"
    THEN [g EXCEPT !.listed = FALSE, !.checked = FALSE, !.listed_node = 0]
    ELSE IF sig = "error"             \* on_worker_error
    THEN [g EXCEPT !.load_vms_button = TRUE, !.sync_button = TRUE,
                   !.sync_node_to_device_button = TRUE]
    ELSE IF sig = "finished" /\ w = "load"   \* on_load_vms_finished
    THEN [g EXCEPT !.load_vms_button = TRUE]
    ELSE IF sig = "finished"   \* on_sync_worker_finished, on_node_sync_worker_finished
    THEN [g EXCEPT !.load_vms_button = TRUE, !.sync_button = TRUE,
                   !.sync_node_to_device_button = TRUE]
    ELSE g                            \* on_sync_completed, on_node_sync_completed

\* the event loop delivers the oldest queued signal
deliver ==
    /\ gui.queue # << >>
    /\ gui' = slot([gui EXCEPT !.queue = Tail(@)],
                   gui.queue[1][1], gui.queue[1][2], gui.queue[1][3])
    /\ UNCHANGED << guiRest, workerRun >>

\* ------------------------------------------------ the workers' run()
\* what the work of a run does: it returns, or one of its calls raises, or
\* fetch_proxmox_node_details returns nothing
RunEvents(w) ==
    IF w = "load" THEN { "ok", "raise" }
    ELSE IF w = "sync" THEN { "ok", "raise_sync", "raise_sweep" }
    ELSE { "ok", "no_details", "raise_fetch", "raise_sync" }

\* LoadVMsWorker.run, lines 668-672: the signals of the try and except blocks
LoadVMsWorker_run(ev) ==
    IF ev = "raise" THEN << "error" >> ELSE << "vm_list_ready" >>

\* a variant that returns without a signal when there are no settings
SyncWorker_run_silent(global_settings, ev) ==
    IF ~global_settings THEN << >>
    ELSE IF ev # "ok" THEN << "error" >> ELSE << "sync_complete" >>

\* SyncWorker.run, lines 700-734
SyncWorker_run(global_settings, ev) ==
    IF ~global_settings THEN << "error" >>
    ELSE IF ev # "ok" THEN << "error" >> ELSE << "sync_complete" >>

\* NodeSyncWorker.run, lines 762-777: the node's details are fetched before
\* the settings are looked at
NodeSyncWorker_run(global_settings, ev) ==
    IF ev = "raise_fetch" THEN << "error" >>
    ELSE IF ~global_settings THEN << "error" >>
    ELSE IF ev = "no_details" THEN << "error" >>
    ELSE IF ev = "raise_sync" THEN << "error" >>
    ELSE << "node_sync_complete" >>

MaxWorkerRuns == 3

NoRun == [n |-> 0, w |-> "load", global_settings |-> TRUE, ev |-> "ok",
          pc |-> "idle", emitted |-> << >>]

\* QThread.start: the thread's started signal calls run()
run_start ==
    /\ workerRun.pc \in { "idle", "done" }
    /\ workerRun.n < MaxWorkerRuns
    /\ \E w \in Workers : \E gs \in BOOLEAN :
        workerRun' = [n |-> workerRun.n + 1, w |-> w, global_settings |-> gs,
                      ev |-> "ok", pc |-> "started", emitted |-> << >>]
    /\ UNCHANGED << guiRest, gui >>

\* the try block of run() with its except clause
run_try ==
    /\ workerRun.pc = "started"
    /\ \E ev \in RunEvents(workerRun.w) :
        workerRun' = [workerRun EXCEPT
                        !.ev = ev, !.pc = "finally",
                        !.emitted =
                            IF workerRun.w = "load" THEN LoadVMsWorker_run(ev)
                            ELSE IF workerRun.w = "sync"
                            THEN SyncWorker_run(workerRun.global_settings, ev)
                            ELSE NodeSyncWorker_run(workerRun.global_settings, ev)]
    /\ UNCHANGED << guiRest, gui >>

\* the finally clause of run(): lines 673-674, 735-736, 778-779
run_finally ==
    /\ workerRun.pc = "finally"
    /\ workerRun' = [workerRun EXCEPT !.pc = "done", !.emitted = Append(@, "finished")]
    /\ UNCHANGED << guiRest, gui >>


\* ---------------------------------------- get-or-create of taxonomy objects
TaxNames == { "Prod DB", "prod db", "web_1" }

\* platform_name.lower().replace(" ", "-").replace("_", "-").replace(".", "-")
platform_slug(platform_name) ==
    IF platform_name \in { "Prod DB", "prod db" } THEN "prod-db" ELSE "web-1"

\* name.lower().replace(" ", "-")
tag_slug(name) ==
    IF name \in { "Prod DB", "prod db" } THEN "prod-db" ELSE "web_1"

TaxRec(name, slug) == [name |-> name, slug |-> slug]

\* what the registry answers to a create: "ok"; "race", another writer has
\* just created the object and the create is refused for uniqueness;
\* "conflict", the create is refused for uniqueness of something the
\* lookups do not search by; "error", any other refusal
CreateEvents == { "ok", "race", "conflict", "error" }

CallResult(table, ret, unique, refetch) ==
    [table |-> table, ret |-> ret, unique |-> unique, refetch |-> refetch]

\* get_or_create_netbox_platform
get_or_create_netbox_platform(table, platform_name, ev) ==
    LET generated_slug == platform_slug(platform_name)
        mine == TaxRec(platform_name, generated_slug)
    IN IF \E o \in table : o.name = platform_name \/ o.slug = generated_slug
       THEN CallResult(table, TRUE, FALSE, 0)
       ELSE IF ev = "ok" THEN CallResult(table \cup { mine }, TRUE, FALSE, 0)
       ELSE IF ev = "race"
       THEN \* lines 143-148: platform_after_conflict is found
            CallResult(table \cup { mine }, TRUE, TRUE, 1)
       ELSE IF ev = "conflict" THEN CallResult(table, FALSE, TRUE, 1)
       ELSE CallResult(table, FALSE, FALSE, 0)

\* get_or_create_netbox_tags for one name of tag_names: ret tells whether
\* the tag's id is in the list returned
get_or_create_netbox_tags(table, name, ev) ==
    LET mine == TaxRec(name, tag_slug(name))
    IN IF \E o \in table : o.name = name \/ o.slug = tag_slug(name)
       THEN CallResult(table, TRUE, FALSE, 0)
       ELSE IF ev = "ok" THEN CallResult(table \cup { mine }, TRUE, FALSE, 0)
       ELSE IF ev = "race"
       THEN \* lines 57-59: logged, continue
            CallResult(table \cup { mine }, FALSE, TRUE, 0)
       ELSE CallResult(table, FALSE, ev = "conflict", 0)

\* get_or_create_cluster, the cluster type being there
get_or_create_cluster(table, cluster_name, ev) ==
    LET mine == TaxRec(cluster_name, cluster_name)
    IN IF \E o \in table : o.name = cluster_name
       THEN CallResult(table, TRUE, FALSE, 0)
       ELSE IF ev = "ok" THEN CallResult(table \cup { mine }, TRUE, FALSE, 0)
       ELSE IF ev = "race"
       THEN \* lines 90-92: logged, return None
            CallResult(table \cup { mine }, FALSE, TRUE, 0)
       ELSE CallResult(table, FALSE, ev = "conflict", 0)

MaxCalls == 2

NoCfLog == [n |-> 0, fn |-> "none", key |-> "", unique |-> FALSE, refetch |-> 0,
            ret |-> FALSE, present |-> FALSE]

\* tables whose names and slugs are unique, slug giving the slug of a name
TaxTables(slug) ==
    { { TaxRec(n, slug[n]) : n \in S } :
        S \in { T \in SUBSET TaxNames : \A a, b \in T : slug[a] = slug[b] => a = b } }

cfRest == << vmVars, nodeVars, ipVars, nicVars, guiVars, parseVars >>

platform_call ==
    /\ cfLog.n < MaxCalls
    /\ \E platform_name \in TaxNames, ev \in CreateEvents :
        LET r == get_or_create_netbox_platform(cf.platforms, platform_name, ev)
        IN /\ cf' = [cf EXCEPT !.platforms = r.table]
           /\ cfLog' = [n |-> cfLog.n + 1, fn |-> "platform", key |-> platform_name, unique |-> r.unique,
                        refetch |-> r.refetch, ret |-> r.ret,
                        present |-> \E o \in r.table : o.name = platform_name
                                                     \/ o.slug = platform_slug(platform_name)]
    /\ UNCHANGED cfRest

tags_call ==
    /\ cfLog.n < MaxCalls
    /\ \E name \in TaxNames, ev \in CreateEvents :
        LET r == get_or_create_netbox_tags(cf.tags, name, ev)
        IN /\ cf' = [cf EXCEPT !.tags = r.table]
           /\ cfLog' = [n |-> cfLog.n + 1, fn |-> "tags", key |-> name, unique |-> r.unique,
                        refetch |-> r.refetch, ret |-> r.ret,
                        present |-> \E o \in r.table : o.name = name
                                                     \/ o.slug = tag_slug(name)]
    /\ UNCHANGED cfRest

\* get_or_create_netbox_vlan for a VID that another writer may create meanwhile
vlan_call ==
    /\ cfLog.n < MaxCalls
    /\ \E vlan_id \in { 10, 20 }, ev \in CreateEvents :
        LET r == get_or_create_netbox_vlan(vlans, vlan_id, ev # "ok")
        IN /\ vlans' = IF ev = "race" THEN r.vlans \cup { vlan_id } ELSE r.vlans
           /\ cfLog' = [n |-> cfLog.n + 1, fn |-> "vlan", key |-> "VLAN", unique |-> vlan_id \notin vlans
                                                       /\ ev \in { "race", "conflict" },
                        refetch |-> 0, ret |-> r.id # 0,
                        present |-> vlan_id \in vlans']
    /\ UNCHANGED << vmVars, nodeVars, ipVars, guiVars, parseVars, cf, nic, macs, nicLog >>

\* get_or_create_and_assign_netbox_mac_address for the interface, while
\* another writer may create an object with the MAC string for interface 2
mac_call ==
    /\ cfLog.n < MaxCalls
    /\ \E mac_str \in SourceMacs \ { "" }, ev \in CreateEvents :
        LET hit == \E m \in macs : /\ m.mac_address = upper(mac_str)
                                   /\ m.assigned_object_id = NicId
                                   /\ m.assigned_object_type = NETBOX_OBJECT_TYPE_VMINTERFACE
            others == IF ev = "race" /\ ~hit
                      THEN { MacRec(1 + Cardinality(macs), upper(mac_str),
                                    NETBOX_OBJECT_TYPE_VMINTERFACE, 2) }
                      ELSE {}
            r == get_or_create_and_assign_netbox_mac_address(
                     macs, mac_str, NicId, NETBOX_OBJECT_TYPE_VMINTERFACE,
                     IF ev = "ok" THEN "none" ELSE IF ev = "error" THEN "create" ELSE "unique",
                     others)
        IN /\ macs' = r.macs
           /\ cfLog' = [n |-> cfLog.n + 1, fn |-> "mac", key |-> mac_str,
                        unique |-> ~hit /\ ev \in { "race", "conflict" },
                        refetch |-> r.refetch, ret |-> r.ret # 0,
                        present |-> \E m \in r.macs : m.mac_address = upper(mac_str)]
    /\ UNCHANGED << vmVars, nodeVars, ipVars, guiVars, parseVars, cf, nic, vlans, nicLog >>

cluster_call ==
    /\ cfLog.n < MaxCalls
    /\ \E cluster_name \in TaxNames, ev \in CreateEvents :
        LET r == get_or_create_cluster(cf.clusters, cluster_name, ev)
        IN /\ cf' = [cf EXCEPT !.clusters = r.table]
           /\ cfLog' = [n |-> cfLog.n + 1, fn |-> "cluster", key |-> cluster_name, unique |-> r.unique,
                        refetch |-> r.refetch, ret |-> r.ret,
                        present |-> \E o \in r.table : o.name = cluster_name]
    /\ UNCHANGED cfRest

\* ------------------------------------------- parsing of Proxmox configs
\* str.startswith, the "in" test and str.find (0 for no occurrence)
startswith(str, prefix) ==
    Len(str) >= Len(prefix) /\ SubSeq(str, 1, Len(prefix)) = prefix

find(str, sub) ==
    LET at == { i \in 1..(Len(str) - Len(sub) + 1) : SubSeq(str, i, i + Len(sub) - 1) = sub }
    IN IF at = {} THEN 0 ELSE CHOOSE i \in at : \A j \in at : i <= j

contains(str, sub) == find(str, sub) > 0

\* str.split(sub)[1] for a string that contains sub
second_part(str, sub) ==
    LET rest == SubSeq(str, find(str, sub) + Len(sub), Len(str))
    IN IF contains(rest, sub) THEN SubSeq(rest, 1, find(rest, sub) - 1) ELSE rest

DigitChar == << "0", "1", "2", "3", "4", "5", "6", "7", "8", "9" >>
IsDigit(c) == \E v \in 1..10 : DigitChar[v] = c
DigitVal(c) == (CHOOSE v \in 1..10 : DigitChar[v] = c) - 1

\* the position after the digits that start at position i
RECURSIVE digits_end(_, _)
digits_end(str, i) ==
    IF i <= Len(str) /\ IsDigit(SubSeq(str, i, i)) THEN digits_end(str, i + 1) ELSE i

\* the position after the blanks that start at position i
RECURSIVE blanks_end(_, _)
blanks_end(str, i) ==
    IF i <= Len(str) /\ SubSeq(str, i, i) = " " THEN blanks_end(str, i + 1) ELSE i

\* the number a string of digits writes
RECURSIVE digits_value(_)
digits_value(str) ==
    IF str = "" THEN 0
    ELSE 10 * digits_value(SubSeq(str, 1, Len(str) - 1))
           + DigitVal(SubSeq(str, Len(str), Len(str)))

\* the decimal writing of a natural number
RECURSIVE Decimal(_)
Decimal(n) ==
    IF n < 10 THEN DigitChar[n + 1] ELSE Decimal(n \div 10) \o DigitChar[(n % 10) + 1]

\* ";".join(devices)
RECURSIVE join(_)
join(devices) ==
    IF devices = << >> THEN ""
    ELSE IF Len(devices) = 1 THEN devices[1]
    ELSE devices[1] \o ";" \o join(Tail(devices))

\* qemu_disk_regex: ^(ide|sata|scsi|virtio)(\d+)$
qemu_disk_regex(key) ==
    \E bus \in { "ide", "sata", "scsi", "virtio" } :
        /\ startswith(key, bus)
        /\ Len(key) > Len(bus)
        /\ digits_end(key, Len(bus) + 1) = Len(key) + 1

\* the config of a QEMU VM: two disks, a CD-ROM drive and a network device
QemuConfig == [ scsi0 |-> "local-lvm:vm-100-disk-0,size=32G",
                virtio1 |-> "local-lvm:vm-100-disk-1,size=8G",
                ide2 |-> "local:iso/debian.iso,media=cdrom",
                net0 |-> "virtio=AA:BB:CC:DD:EE:FF,bridge=vmbr0" ]

\* _process_resource_config lines 432-452: qemu_boot_disk_key, "" for None
qemu_boot_disk_key(boot_config, bootdisk) ==
    LET from_boot ==
            IF contains(boot_config, "order=")
            THEN LET order_str == split(second_part(boot_config, "order="), ";")[1]
                     potential_boot_keys ==
                         SelectSeq(split(order_str, ";"), LAMBDA bk : ~startswith(bk, "net"))
                 IN IF potential_boot_keys # << >> /\ potential_boot_keys[1] # ""
                    THEN potential_boot_keys[1] ELSE ""
            ELSE IF boot_config # "" /\ ~contains(boot_config, "=") /\ ~contains(boot_config, ";")
                      /\ ~startswith(boot_config, "net")
            THEN boot_config
            ELSE ""
    IN IF from_boot = "" /\ bootdisk # "" /\ ~startswith(bootdisk, "net")
       THEN bootdisk
       ELSE from_boot

\* _extract_virtual_disks lines 176-189: the disks of the config with their
\* is_boot_disk flags
extract_virtual_disks(config, boot_disk_key) ==
    { [name |-> key, is_boot_disk |-> boot_disk_key = key] :
        key \in { k \in DOMAIN config : /\ qemu_disk_regex(k)
                                        /\ ~contains(config[k], "media=cdrom") } }

BootDevices == { "net0", "scsi0", "ide2", "virtio1" }
MaxOrder == 3
BootOrders == UNION { [1..n -> BootDevices] : n \in 1..MaxOrder }

\* boot fields: none, the legacy forms, and order=...
BootInputs ==
    { [order |-> << >>, directive |-> FALSE, boot |-> b, bootdisk |-> d, done |-> FALSE, disks |-> {}] :
        b \in { "", "cdn", "scsi0" }, d \in { "", "scsi0", "virtio1" } }
      \cup { [order |-> o, directive |-> TRUE, boot |-> "order=" \o join(o), bootdisk |-> d,
              done |-> FALSE, disks |-> {}] :
              o \in BootOrders, d \in { "", "scsi0", "virtio1" } }

parseRest == << vmVars, nodeVars, ipVars, nicVars, guiVars, cfVars >>

\* _process_resource_config for a QEMU config
process_resource_config ==
    /\ ~bootCall.done
    /\ bootCall' = [bootCall EXCEPT
                      !.done = TRUE,
                      !.disks = extract_virtual_disks(
                                    QemuConfig, qemu_boot_disk_key(bootCall.boot, bootCall.bootdisk))]
    /\ UNCHANGED << parseRest, sizeCall, netCall, mergeCall >>

\* Python's round() of the fraction a / b, b > 0: to the nearest integer,
\* a tie to the even one
round(a, b) ==
    LET q == a \div b
        r == a % b
    IN IF 2 * r < b THEN q
       ELSE IF 2 * r > b THEN q + 1
       ELSE IF q % 2 = 0 THEN q ELSE q + 1

\* str.upper() on the letters of the model
upper_char(c) ==
    CASE c = "k" -> "K" [] c = "m" -> "M" [] c = "g" -> "G" [] c = "t" -> "T"
      [] c = "b" -> "B" [] c = "a" -> "A" [] c = "c" -> "C" [] c = "x" -> "X"
      [] OTHER -> c

RECURSIVE str_upper(_)
str_upper(str) ==
    IF str = "" THEN ""
    ELSE upper_char(SubSeq(str, 1, 1)) \o str_upper(SubSeq(str, 2, Len(str)))

\* int(size_str): << v >>, or << >> for a ValueError
int_of(str) ==
    LET t == strip(str)
        sign == IF t # "" /\ SubSeq(t, 1, 1) \in { "+", "-" } THEN SubSeq(t, 1, 1) ELSE ""
        body == SubSeq(t, Len(sign) + 1, Len(t))
    IN IF body = "" \/ digits_end(body, 1) # Len(body) + 1 THEN << >>
       ELSE IF sign = "-" THEN << 0 - digits_value(body) >>
       ELSE << digits_value(body) >>

Ten(k) == 10 ^ k

\* _parse_size_to_mb: << megabytes >>, or << >> for None; size_str is << >> for
\* None and << s >> for a string
parse_size_to_mb(size_str) ==
    IF size_str = << >> \/ size_str = << "" >> THEN << >>
    ELSE LET size_str_upper == str_upper(size_str[1])
             \* (\d+\.?\d*)\s*([KMGT])?B?
             i1 == digits_end(size_str_upper, 1)
             dot == i1 <= Len(size_str_upper) /\ SubSeq(size_str_upper, i1, i1) = "."
             i2 == IF dot THEN digits_end(size_str_upper, i1 + 1) ELSE i1
             i3 == blanks_end(size_str_upper, i2)
             unit == IF i3 <= Len(size_str_upper)
                        /\ SubSeq(size_str_upper, i3, i3) \in { "K", "M", "G", "T" }
                     THEN SubSeq(size_str_upper, i3, i3) ELSE ""
             \* float(num_part_str) as the fraction p / q
             frac == IF dot THEN SubSeq(size_str_upper, i1 + 1, i2 - 1) ELSE ""
             q == Ten(Len(frac))
             p == digits_value(SubSeq(size_str_upper, 1, i1 - 1)) * q + digits_value(frac)
         IN IF i1 = 1
            THEN \* no match: round(int(size_str) / (1024 * 1024))
                 LET v == int_of(size_str[1])
                 IN IF v = << >> THEN << >> ELSE << round(v[1], 1024 * 1024) >>
            ELSE IF unit = "T" THEN << round(p * 1024 * 1024, q) >>
            ELSE IF unit = "G" THEN << round(p * 1024, q) >>
            ELSE IF unit = "M" THEN << round(p, q) >>
            ELSE IF unit = "K" THEN << round(p, q * 1024) >>
            ELSE << round(p * 1024, q) >>

SizeNumbers == { 0, 1, 2, 7, 32, 50, 511, 512, 513, 1024, 1536, 2047 }
SizeUnits == { "T", "G", "M", "K", "" }
OtherSizeStrings == { "-5", "+3", " 7", "G", "abc", "1.5G", "32g", "10 G", "5X",
                      "-1048576", "+2097152", "5.", "GB", "2.5K" }

\* what a disk's size parameter can be: nothing, a number with or without
\* a unit, or something else
SizeInputs ==
    { [n |-> n, unit |-> u, plain |-> TRUE, size_str |-> << Decimal(n) \o u >>,
       done |-> FALSE, mb |-> << >>] : n \in SizeNumbers, u \in SizeUnits }
      \cup { [n |-> 0, unit |-> "", plain |-> FALSE, size_str |-> << str >>,
              done |-> FALSE, mb |-> << >>] : str \in OtherSizeStrings \cup { "" } }
      \cup { [n |-> 0, unit |-> "", plain |-> FALSE, size_str |-> << >>,
              done |-> FALSE, mb |-> << >>] }

\* _parse_size_to_mb applied to the size parameter
parse_size ==
    /\ ~sizeCall.done
    /\ sizeCall' = [sizeCall EXCEPT !.done = TRUE, !.mb = parse_size_to_mb(sizeCall.size_str)]
    /\ UNCHANGED << parseRest, bootCall, netCall, mergeCall >>

\* ------------------------------ extract_network_interfaces_from_config
\* str.lower() on the letters of the model
lower_char(c) ==
    CASE c = "D" -> "d" [] c = "H" -> "h" [] c = "C" -> "c" [] c = "P" -> "p"
      [] OTHER -> c

RECURSIVE str_lower(_)
str_lower(str) ==
    IF str = "" THEN ""
    ELSE lower_char(SubSeq(str, 1, 1)) \o str_lower(SubSeq(str, 2, Len(str)))

\* the ipaddress module on the addresses of the model, which are written the
\* way the module writes them: the version, the address before the prefix
\* and the first octet of an IPv4 address
is_ipv6(address) == contains(address, ":")
host_part(address) ==
    IF contains(address, "/") THEN SubSeq(address, 1, find(address, "/") - 1) ELSE address
first_octet(address) == digits_value(SubSeq(address, 1, find(address, ".") - 1))

\* 169.254.0.0/16 and fe80::/10
is_link_local(address) ==
    IF is_ipv6(address)
    THEN \E p \in { "fe8", "fe9", "fea", "feb" } : startswith(address, p)
    ELSE startswith(address, "169.254.")

\* 127.0.0.0/8 and ::1
is_loopback(address) ==
    IF is_ipv6(address) THEN host_part(address) = "::1" ELSE first_octet(address) = 127

\* 224.0.0.0/4 and ff00::/8
is_multicast(address) ==
    IF is_ipv6(address) THEN startswith(address, "ff")
    ELSE first_octet(address) \in 224..239

\* line 605, str(ipaddress.ip_interface(f"{addr}/{prefix}")): << >> for the
\* ValueError of a prefix longer than the address
agent_ip_interface(addr_scan, prefix_scan) ==
    IF prefix_scan > (IF is_ipv6(addr_scan) THEN 128 ELSE 32) THEN << >>
    ELSE << addr_scan \o "/" \o Decimal(prefix_scan) >>

\* lines 585-591: the first agent interface whose hardware address is the
\* MAC, letter case aside; 0 for none
RECURSIVE found_agent_iface(_, _, _)
found_agent_iface(agent_network_data, mac, k) ==
    IF k > Len(agent_network_data) THEN 0
    ELSE IF /\ agent_network_data[k].hardware_address # ""
            /\ str_upper(agent_network_data[k].hardware_address) = str_upper(mac)
         THEN k
         ELSE found_agent_iface(agent_network_data, mac, k + 1)

\* lines 597-616: the addresses of the agent interface that have an address,
\* a prefix and a family and that ip_interface accepts
RECURSIVE collect_agent_ips(_)
collect_agent_ips(agent_ip_list_scan) ==
    IF agent_ip_list_scan = << >> THEN << >>
    ELSE LET o == Head(agent_ip_list_scan)
             rest == collect_agent_ips(Tail(agent_ip_list_scan))
             itf == agent_ip_interface(o.ip_address, o.prefix[1])
         IN IF o.ip_address # "" /\ o.prefix # << >> /\ o.ip_address_type # ""
            THEN IF itf = << >> THEN rest
                 ELSE << [address |-> itf[1], family |-> o.ip_address_type] >> \o rest
            ELSE rest

\* a variant that takes the first address of the family whatever its scope
RECURSIVE priority_scan_any(_, _)
priority_scan_any(agent_ips, family) ==
    IF agent_ips = << >> THEN << >>
    ELSE IF Head(agent_ips).family = family THEN << Head(agent_ips).address >>
    ELSE priority_scan_any(Tail(agent_ips), family)

\* lines 631-646: the first address of the family that is not link-local,
\* loopback or multicast; << >> for none
RECURSIVE priority_scan(_, _)
priority_scan(agent_ips, family) ==
    IF agent_ips = << >> THEN << >>
    ELSE LET a == Head(agent_ips).address
         IN IF /\ Head(agent_ips).family = family
               /\ ~is_link_local(a) /\ ~is_loopback(a) /\ ~is_multicast(a)
            THEN << a >>
            ELSE priority_scan(Tail(agent_ips), family)

\* lines 648-654: the first address that is neither loopback nor multicast
RECURSIVE fallback_scan(_)
fallback_scan(agent_ips) ==
    IF agent_ips = << >> THEN << >>
    ELSE LET a == Head(agent_ips).address
         IN IF ~is_loopback(a) /\ ~is_multicast(a) THEN << a >>
            ELSE fallback_scan(Tail(agent_ips))

\* lines 570-574 and 577-673 for one net device whose configuration was
\* parsed: c.mac the MAC found ("" for none), c.ip the value of "ip="
\* (<< >> without one); the list of the interfaces appended
extract_network_interfaces_from_config(c) ==
    LET ip_cidr == IF /\ c.ip # << >>
                      /\ contains(c.ip[1], "/") /\ str_lower(c.ip[1]) # "dhcp"
                   THEN c.ip ELSE << >>
        k == IF c.resource_type = "qemu" /\ c.agent # << >>
             THEN found_agent_iface(c.agent, c.mac, 1) ELSE 0
        agent_ips_for_this_iface ==
            IF k = 0 THEN << >> ELSE collect_agent_ips(c.agent[k].ip_addresses)
        p1 == priority_scan(agent_ips_for_this_iface, "ipv4")
        p2 == priority_scan(agent_ips_for_this_iface, "ipv6")
        derived_ip_cidr_from_agent ==
            IF ip_cidr # << >> \/ agent_ips_for_this_iface = << >> THEN << >>
            ELSE IF p1 # << >> THEN p1
            ELSE IF p2 # << >> THEN p2
            ELSE fallback_scan(agent_ips_for_this_iface)
    IN IF c.mac = "" THEN << >>
       ELSE << [mac_address |-> str_upper(c.mac),
                ip_cidr |-> IF ip_cidr # << >> THEN ip_cidr ELSE derived_ip_cidr_from_agent,
                agent_ips |-> agent_ips_for_this_iface] >>

\* what the guest agent reports for an address
AgentIp(a, p, t) == [ip_address |-> a, prefix |-> p, ip_address_type |-> t]
AgentIpEntries ==
    { AgentIp("10.0.0.5", << 24 >>, "ipv4"),
      AgentIp("169.254.1.1", << 16 >>, "ipv4"),
      AgentIp("127.0.0.1", << 8 >>, "ipv4"),
      AgentIp("2001:db8::1", << 64 >>, "ipv6"),
      AgentIp("fe80::1", << 64 >>, "ipv6"),
      AgentIp("ff02::1", << 128 >>, "ipv6"),
      AgentIp("10.0.0.6", << >>, "ipv4"),
      AgentIp("10.0.0.7", << 64 >>, "ipv4") }
MaxAgentIps == 3
AgentIpLists == UNION { [1..n -> AgentIpEntries] : n \in 0..MaxAgentIps }
AgentIface(hw, l) == [hardware_address |-> hw, ip_addresses |-> l]

\* the agent's answer for a VM whose net0 has the MAC AA:01: none, the
\* interface alone, after the loopback interface, after another interface,
\* before an interface of the same MAC, or without the interface
AgentData ==
    { << >> }
    \cup { << AgentIface("aa:01", l) >> : l \in AgentIpLists }
    \cup { << AgentIface("", << AgentIp("127.0.0.1", << 8 >>, "ipv4") >>),
              AgentIface("bb:02", << AgentIp("10.0.0.5", << 24 >>, "ipv4") >>),
              AgentIface("AA:01", l) >> : l \in AgentIpLists }
    \cup { << AgentIface("aa:01", l),
              AgentIface("aa:01", << AgentIp("10.0.0.5", << 24 >>, "ipv4") >>) >> :
             l \in { s \in AgentIpLists : Len(s) <= 1 } }
    \cup { << AgentIface("bb:02", l) >> : l \in { s \in AgentIpLists : Len(s) = 1 } }
StaticIps == { << >>, << "dhcp" >>, << "10.0.0.9/24" >>, << "10.0.0.9" >> }

NetInputs ==
    { [resource_type |-> "qemu", mac |-> "AA:01", ip |-> ip, agent |-> a,
       done |-> FALSE, out |-> << >>] : ip \in StaticIps, a \in AgentData }
    \cup { [resource_type |-> "lxc", mac |-> m, ip |-> ip, agent |-> << >>,
            done |-> FALSE, out |-> << >>] : m \in { "", "AA:01" }, ip \in StaticIps }

\* extract_network_interfaces_from_config applied to the net device
extract_interfaces ==
    /\ ~netCall.done
    /\ netCall' = [netCall EXCEPT
                     !.done = TRUE,
                     !.out = extract_network_interfaces_from_config(netCall)]
    /\ UNCHANGED << parseRest, bootCall, sizeCall, mergeCall >>

\* -------------------------------------- fetch_proxmox_node_details: MACs
ZeroMac == "00:00:00:00:00:00"

\* lines 835-840: the MACs "ip -j link show" gave, by interface name; an
\* entry without a name, without an address or with the zero address is left
\* out, and a later entry of a name replaces an earlier one
RECURSIVE ssh_mac_map(_)
ssh_mac_map(ip_link_data) ==
    IF ip_link_data = << >> THEN EmptyFn
    ELSE LET if_data_ssh == ip_link_data[Len(ip_link_data)]
             before == ssh_mac_map(SubSeq(ip_link_data, 1, Len(ip_link_data) - 1))
         IN IF /\ if_data_ssh.ifname # "" /\ if_data_ssh.address # ""
               /\ if_data_ssh.address # ZeroMac
            THEN Extend(before, if_data_ssh.ifname, str_upper(if_data_ssh.address))
            ELSE before

\* a variant that takes the MAC found over SSH whenever there is one
merged_mac_prefers_ssh(current_mac_api, iface_name_api, macs_by_name) ==
    IF iface_name_api \in DOMAIN macs_by_name
    THEN << macs_by_name[iface_name_api] >> ELSE current_mac_api

\* lines 877-883: the MAC of an interface after the merge; current_mac_api is
\* << >> for None
merged_mac(current_mac_api, iface_name_api, macs_by_name) ==
    IF /\ ( current_mac_api = << >> \/ current_mac_api[1] = ""
            \/ current_mac_api[1] = ZeroMac )
       /\ iface_name_api \in DOMAIN macs_by_name
    THEN << macs_by_name[iface_name_api] >> ELSE current_mac_api

\* lines 797-885: the map is filled only when the fetch over SSH is enabled
\* and succeeds (c.ssh is << >> when it fails)
final_parsed_interfaces(c) ==
    LET macs_by_name == IF c.enabled THEN ssh_mac_map(c.ssh) ELSE EmptyFn
    IN [k \in 1..Len(c.api) |->
          [c.api[k] EXCEPT
             !.mac_address = merged_mac(c.api[k].mac_address, c.api[k].name, macs_by_name)]]

ApiMacs == { << >>, << "" >>, << ZeroMac >>, << "AA:BB:CC:00:00:01" >> }
ApiIface(n, m) == [name |-> n, mac_address |-> m]
ApiIfaceLists ==
    { << >> } \cup { << ApiIface("eno1", m) >> : m \in ApiMacs }
    \cup { << ApiIface("eno1", m1), ApiIface("vmbr0", m2) >> : m1, m2 \in ApiMacs }
SshMacs == { "", ZeroMac, "aa:bb:cc:00:00:02" }
SshIface(n, a) == [ifname |-> n, address |-> a]
SshReplies ==
    { << >> }
    \cup { << SshIface("lo", ZeroMac), SshIface("eno1", a) >> : a \in SshMacs }
    \cup { << SshIface("vmbr0", a) >> : a \in SshMacs }
    \cup { << SshIface("eno1", a1), SshIface("vmbr0", a2) >> : a1, a2 \in SshMacs }

MergeInputs ==
    { [api |-> a, ssh |-> s, enabled |-> e, done |-> FALSE, final |-> << >>] :
        a \in ApiIfaceLists, s \in SshReplies, e \in BOOLEAN }

\* the merge of fetch_proxmox_node_details applied to the two lists
merge_macs ==
    /\ ~mergeCall.done
    /\ mergeCall' = [mergeCall EXCEPT
                       !.done = TRUE, !.final = final_parsed_interfaces(mergeCall)]
    /\ UNCHANGED << parseRest, bootCall, sizeCall, netCall >>

NoBootCall == [order |-> << >>, directive |-> FALSE, boot |-> "", bootdisk |-> "",
               done |-> TRUE, disks |-> {}]
NoSizeCall == [n |-> 0, unit |-> "", plain |-> FALSE, size_str |-> << >>,
               done |-> TRUE, mb |-> << >>]
NoNetCall == [resource_type |-> "qemu", mac |-> "", ip |-> << >>, agent |-> << >>,
              done |-> TRUE, out |-> << >>]
NoMergeCall == [api |-> << >>, ssh |-> << >>, enabled |-> FALSE, done |-> TRUE,
                final |-> << >>]

\* ------------------------------------------------------- initial states
Running == [actual_status |-> "running", proxmox_virtual_disks |-> << Disk10 >>,
            proxmox_network_interfaces |-> << Net0 >>]

Deployed(n, c, v) == Rec(n, c, v, "Deployed", 0, "active", << 10 >>)

Seed(reg, cl, snap) ==
    [reg |-> reg, cl |-> cl, snap |-> snap,
     dsk |-> { DiskRec(id, "scsi0", 10) : id \in DOMAIN reg },
     ifs |-> { [vm |-> id, name |-> "net0"] : id \in DOMAIN reg }]

\* registries earlier passes leave behind, with the snapshot of the last one
Seeds ==
    { Seed(EmptyFn, FALSE, << >>),
      Seed(EmptyFn, TRUE, << >>),
      Seed(1 :> Deployed("web", TargetCluster, 100), TRUE,
           << SourceVM("web", 100, Running) >>),
      Seed(1 :> Deployed("web (100)", TargetCluster, 100)
             @@ 2 :> Deployed("web (101)", TargetCluster, 101), TRUE,
           << SourceVM("web", 100, Running), SourceVM("web", 101, Running) >>),
      \* a second node has synced a VM of the same name into its own cluster
      Seed(1 :> Deployed("web", TargetCluster, 100)
             @@ 2 :> Deployed("web", OtherCluster, 100), TRUE,
           << SourceVM("web", 100, Running) >>),
      \* a record entered by hand, without the vmid custom field
      Seed(1 :> Rec("web", TargetCluster, NoVmid, "", 0, "active", << >>), TRUE, << >>) }

InitWith(entities, order, limit) ==
    /\ pool = entities
    /\ anyOrder = order
    /\ passLimit = limit
    /\ \E seed \in Seeds :
        /\ registry = seed.reg
        /\ disks = seed.dsk
        /\ ifaces = seed.ifs
        /\ nbTags = {}
        /\ clusterPresent = seed.cl
        /\ nextId = Cardinality(DOMAIN seed.reg) + 1
        /\ src = seed.snap /\ sel = seed.snap
    /\ now = 0
    /\ pc = "idle" /\ idx = 0
    /\ mem = EmptyFn /\ byName = {} /\ byVmid = EmptyFn
    /\ cluster_id = NoCluster
    /\ sweepList = << >> /\ active = {}
    /\ processed = 0 /\ succeeded = 0 /\ warns = {} /\ errs = {}
    /\ marked = 0 /\ sweepErrs = 0
    /\ outcome = "complete"
    /\ passNo = 0 /\ faults = 0
    /\ passFaulty = FALSE /\ passRejected = FALSE
    /\ nwrites = 0 /\ log = NoLog /\ retired = {}
    /\ regAtStart = registry
    /\ prev = [src |-> << >>, sel |-> << >>, real |-> FALSE, clean |-> FALSE,
               selV |-> {}, selV2 |-> {}, retired |-> {}]

\* two VMs, of either name; the first one also changes its status and disks
Pool == { SourceVM(n, 100, sh) : n \in Names, sh \in Shapes }
            \cup { SourceVM(n, 101, Running) : n \in Names }

\* the device of the node, with the interfaces NetBox holds for it
NodeInit(devs) ==
    /\ devIfaces \in devs
    /\ nodeSrc = << >> /\ npc = "idle" /\ nidx = 0
    /\ netbox_ifaces_map = << >>
    /\ processed_proxmox_iface_names = {} /\ pending = {}
    /\ devAtStart = devIfaces
    /\ nodeClean = TRUE /\ nodeRuns = 0 /\ nodeFaults = 0

IpIdle == ips = {} /\ ipLog = NoIpLog
\* nothing but the VMs and the node's device is in play
NicIdle == nic = NoNic /\ vlans = {} /\ macs = {} /\ nicLog = NoNicLog
GuiIdle ==
    /\ gui \in { g \in GuiStates : ~g.netbox_api /\ ~g.proxmox_api }
    /\ workerRun = NoRun
CfIdle == cf = [platforms |-> {}, tags |-> {}, clusters |-> {}] /\ cfLog = NoCfLog
ParseIdle ==
    /\ bootCall = NoBootCall /\ sizeCall = NoSizeCall
    /\ netCall = NoNetCall /\ mergeCall = NoMergeCall
ExtrasIdle == IpIdle /\ NicIdle /\ GuiIdle /\ CfIdle /\ ParseIdle

Init == InitWith(Pool, FALSE, MaxPasses) /\ NodeInit({ << >> }) /\ ExtrasIdle

Next == StartSync \/ SyncVM \/ SweepStart \/ SweepVM \/ PassEnd

Spec == Init /\ [][Next]_vars


\* three VMs, listed in any order, one pass: name collisions of two and of
\* three VMs
Pool3 == { SourceVM(n, v, Running) : n \in Names, v \in {100, 101, 102} }

InitDisamb == InitWith(Pool3, TRUE, 1) /\ NodeInit({ << >> }) /\ ExtrasIdle

SpecDisamb == InitDisamb /\ [][Next]_vars

\* one VM whose disks change between passes: resized, added, removed, of
\* size 0 (a size below one MB) or of a size that could not be parsed
DiskLists ==
    { << >>,
      << Disk10 >>,
      << [name |-> "scsi0", size_mb |-> 20] >>,
      << [name |-> "scsi0", size_mb |-> 0] >>,
      << [name |-> "scsi0", size_mb |-> NoSize] >>,
      << Disk10, [name |-> "scsi1", size_mb |-> 5] >>,
      << [name |-> "scsi0", size_mb |-> NoSize], [name |-> "scsi1", size_mb |-> 5] >>,
      << [name |-> "scsi0", size_mb |-> 0], [name |-> "scsi1", size_mb |-> NoSize] >> }

PoolDisks ==
    { SourceVM("web", 100, [actual_status |-> "running", proxmox_virtual_disks |-> d,
                            proxmox_network_interfaces |-> << Net0 >>]) :
        d \in DiskLists }

InitDisks == InitWith(PoolDisks, FALSE, MaxPasses) /\ NodeInit({ << >> }) /\ ExtrasIdle

SpecDisks == InitDisks /\ [][Next]_vars

\* one VM whose tags change between passes
TagStrings == { "", "prod", "prod;db", " db ;" }

PoolTags == { TaggedVM("web", 100, Running, t) : t \in TagStrings }

InitTags == InitWith(PoolTags, FALSE, MaxPasses) /\ NodeInit({ << >> }) /\ ExtrasIdle

SpecTags == InitTags /\ [][Next]_vars

\* the interfaces of the node's device, any of them flagged management-only
DeviceInterfaces == UNION { [S -> BOOLEAN] : S \in SUBSET IfNames }

InitNode ==
    /\ InitWith({}, FALSE, 0) /\ registry = << >> /\ clusterPresent
    /\ NodeInit(DeviceInterfaces)
    /\ ExtrasIdle

\* nothing of the VMs and of the node's device is in play
VmIdle == InitWith({}, FALSE, 0) /\ registry = << >> /\ clusterPresent

InitIP ==
    /\ VmIdle /\ NodeInit({ << >> }) /\ NicIdle /\ GuiIdle /\ CfIdle /\ ParseIdle
    /\ ips \in IpTables /\ ipLog = NoIpLog

\* the interface as earlier passes left it: a primary MAC is an object
\* assigned to the interface, and without the interface nothing is assigned to it
Nics(vids, table) ==
    LET own == { o.id : o \in { x \in table :
                    correctly_assigned(x, NicId, NETBOX_OBJECT_TYPE_VMINTERFACE) } }
    IN (IF own = {} THEN { NoNic } ELSE {})
         \cup { NicRec(md, uv, pm) : md \in { "access", "tagged" },
                                      uv \in { 0 } \cup { VlanId(t) : t \in vids },
                                      pm \in { 0 } \cup own }
         \cup { NicRec("none", 0, pm) : pm \in { 0 } \cup own }

InitNic ==
    /\ VmIdle /\ NodeInit({ << >> }) /\ IpIdle /\ GuiIdle /\ CfIdle /\ ParseIdle
    /\ vlans \in SUBSET { 10, 20 }
    /\ macs \in MacTables
    /\ nic \in Nics(vlans, macs)
    /\ nicLog = NoNicLog

NextNic == VmIfaceStep

InitGui ==
    /\ VmIdle /\ NodeInit({ << >> }) /\ IpIdle /\ NicIdle /\ CfIdle /\ ParseIdle
    /\ gui \in GuiStates /\ workerRun = NoRun

InitConflict ==
    /\ VmIdle /\ NodeInit({ << >> }) /\ IpIdle /\ GuiIdle /\ ParseIdle
    /\ nic = NoNic /\ nicLog = NoNicLog
    /\ vlans \in { {}, { 10 } }
    /\ macs \in { {}, { MacRec(1, "AA:01", NETBOX_OBJECT_TYPE_VMINTERFACE, 2) } }
    /\ cf \in [platforms : TaxTables([n \in TaxNames |-> platform_slug(n)]),
                tags : TaxTables([n \in TaxNames |-> tag_slug(n)]),
                clusters : { {}, { TaxRec("web_1", "web_1") } }]
    /\ cfLog = NoCfLog

NextConflict == platform_call \/ tags_call \/ cluster_call \/ vlan_call \/ mac_call

SpecConflict == InitConflict /\ [][NextConflict]_vars

InitBoot ==
    /\ VmIdle /\ NodeInit({ << >> }) /\ IpIdle /\ NicIdle /\ GuiIdle /\ CfIdle
    /\ bootCall \in BootInputs /\ sizeCall = NoSizeCall
    /\ netCall = NoNetCall /\ mergeCall = NoMergeCall

NextBoot == process_resource_config

SpecBoot == InitBoot /\ [][NextBoot]_vars

InitSize ==
    /\ VmIdle /\ NodeInit({ << >> }) /\ IpIdle /\ NicIdle /\ GuiIdle /\ CfIdle
    /\ sizeCall \in SizeInputs /\ bootCall = NoBootCall
    /\ netCall = NoNetCall /\ mergeCall = NoMergeCall

NextSize == parse_size

SpecSize == InitSize /\ [][NextSize]_vars

InitNet ==
    /\ VmIdle /\ NodeInit({ << >> }) /\ IpIdle /\ NicIdle /\ GuiIdle /\ CfIdle
    /\ bootCall = NoBootCall /\ sizeCall = NoSizeCall
    /\ netCall \in NetInputs /\ mergeCall = NoMergeCall

NextNet == extract_interfaces

SpecNet == InitNet /\ [][NextNet]_vars

InitMerge ==
    /\ VmIdle /\ NodeInit({ << >> }) /\ IpIdle /\ NicIdle /\ GuiIdle /\ CfIdle
    /\ bootCall = NoBootCall /\ sizeCall = NoSizeCall
    /\ netCall = NoNetCall /\ mergeCall \in MergeInputs

NextMerge == merge_macs

SpecMerge == InitMerge /\ [][NextMerge]_vars

InitRun ==
    /\ VmIdle /\ NodeInit({ << >> }) /\ IpIdle /\ NicIdle /\ GuiIdle /\ CfIdle /\ ParseIdle

NextRun == run_start \/ run_try \/ run_finally

SpecRun == InitRun /\ [][NextRun]_vars

\* a started thread runs run() to its end: no step of run() waits for another
\* thread, and the calls of the work return or raise
SpecRunFair == SpecRun /\ WF_vars(run_try) /\ WF_vars(run_finally)

NextGui ==
    \/ on_node_selected \/ select_vms
    \/ start_load_vms_thread \/ start_sync_thread \/ start_sync_node_to_device_thread
    \/ worker_run \/ deliver

SpecGui == InitGui /\ [][NextGui]_vars

SpecNic == InitNic /\ [][NextNic]_vars

NextIP == VmIpStep \/ NodeIpStep

SpecIP == InitIP /\ [][NextIP]_vars

NextNode == NodeStart \/ NodeIface \/ NodeDelete \/ NodeReturn

SpecNode == InitNode /\ [][NextNode]_vars

\* ------------------------------------------------------------ properties
SyncReturned == pc = "sync" /\ idx > Len(sel)
NoFailureSoFar == ~passFaulty /\ ~passRejected
InTarget(reg) == { id \in DOMAIN reg : reg[id].cluster = TargetCluster }
RecordsOf(reg, v) == { id \in InTarget(reg) : reg[id].vmid = v }
SingleClusterRegistry ==
    \A id \in DOMAIN registry : registry[id].cluster = TargetCluster

\* C1: a second call of sync_to_netbox on the snapshot of the pass before,
\* with no registry call failing in either pass, issues no write call.
C1_SecondPassWritesNothing ==
    ( /\ SyncReturned
      /\ prev.real /\ prev.clean /\ NoFailureSoFar
      /\ prev.src = src /\ prev.sel = sel )
    => nwrites = 0

\* C2: after one call of sync_to_netbox without registry failures, for every
\* two VMs of the snapshot that share a name, differ in vmid and had no
\* record when the pass began, each one's records are named "{name} ({vmid})".
Fresh(v) == RecordsOf(regAtStart, v) = {}
NamedWithVmid(vm) ==
    /\ RecordsOf(registry, vm.vmid) # {}
    /\ \A id \in RecordsOf(registry, vm.vmid) :
          registry[id].name = Disambiguated(vm.name, vm.vmid)
C2_Disambiguation ==
    ( SyncReturned /\ NoFailureSoFar )
    => \A a, b \in 1..Len(sel) :
          ( /\ sel[a].name = sel[b].name /\ sel[a].vmid # sel[b].vmid
            /\ Fresh(sel[a].vmid) /\ Fresh(sel[b].vmid) )
          => NamedWithVmid(sel[a]) /\ NamedWithVmid(sel[b])

\* three new VMs of one name have been reconciled without a failure
C2_Witness ==
    /\ SyncReturned /\ NoFailureSoFar /\ Len(sel) = 3
    /\ \A a \in 1..3 : sel[a].name = "web" /\ Fresh(sel[a].vmid)
    /\ \A a \in 1..3 : NamedWithVmid(sel[a])

\* C3: when a pass finds two records named "{name} ({v1})" and "{name} ({v2})"
\* and its snapshot still has both VMs under the bare name, the records keep
\* these names through the pass.
HoldsPair(reg, n, v1, v2) ==
    /\ \E id \in RecordsOf(reg, v1) : reg[id].name = Disambiguated(n, v1)
    /\ \E id \in RecordsOf(reg, v2) : reg[id].name = Disambiguated(n, v2)
C3_DisambiguatedNamesStable ==
    \A a, b \in 1..Len(sel) :
       ( /\ pc \in {"sync", "sweep"} /\ ~passFaulty
         /\ a # b /\ sel[a].name = sel[b].name
         /\ HoldsPair(regAtStart, sel[a].name, sel[a].vmid, sel[b].vmid) )
       => HoldsPair(registry, sel[a].name, sel[a].vmid, sel[b].vmid)

\* C4: in a registry with the target cluster only and with no registry call
\* failing for transport reasons, after a completed pass (a) a record of a VM
\* that the pass before reconciled and that the node no longer lists is
\* "Deleted", and (b) a record the sweep of the pass before retired, whose VM
\* is in the snapshot again, is "Deployed".
PassCompleted == pc = "idle" /\ passNo >= 1 /\ outcome = "complete" /\ ~passFaulty
C4_OrphanTransition ==
    ( PassCompleted /\ SingleClusterRegistry /\ faults = 0 )
    => /\ \A id \in InTarget(registry) :
             ( registry[id].vmid \in prev.selV
               /\ registry[id].vmid \notin VmidsOf(src) )
             => registry[id].vm_status = "Deleted"
       /\ \A id \in prev.retired :
             ( registry[id].vmid \in prev.selV2
               /\ registry[id].vmid \in VmidsOf(sel) )
             => registry[id].vm_status = "Deployed"

\* C5: when the target cluster holds a record with the vmid of the VM being
\* reconciled, the step works on that record and attempts no create.
C5_MatchByVmid ==
    ( log.step = "vm" /\ log.had # {} /\ ~passFaulty )
    => /\ log.target \in log.had
       /\ \A k \in 1..Len(log.events) : log.events[k].op # "create"

\* C6: between passes, failing registry calls included, no two records of the
\* target cluster that are not "Deleted" carry the same vmid (stated for
\* registries that hold the target cluster only).
C6_UniquePerVmid ==
    ( pc = "idle" /\ SingleClusterRegistry )
    => \A a, b \in InTarget(registry) :
          ( /\ a # b
            /\ registry[a].vmid # NoVmid
            /\ registry[a].vmid = registry[b].vmid )
          => \/ registry[a].vm_status = "Deleted"
             \/ registry[b].vm_status = "Deleted"

\* C7: no step removes a VM record from the registry.
C7_NoPhysicalDelete ==
    [][ \A id \in DOMAIN registry : id \in DOMAIN registry' ]_vars

\* the sweep has retired a record, which is still there
C7_Witness ==
    /\ log.step = "sweep"
    /\ \E k \in 1..Len(log.events) : log.events[k].op = "mark" /\ log.events[k].ok
    /\ log.target \in DOMAIN registry
    /\ registry[log.target].vm_status = "Deleted"

\* C8: an iteration of the sweep changes at most vm_status (to "Deleted") and
\* vm_last_sync of its own record, leaves disks and interfaces alone, and
\* issues no write for a record that is in the active set or already "Deleted".
SweepFrame(id) ==
    /\ DOMAIN registry' = DOMAIN registry
    /\ disks' = disks /\ ifaces' = ifaces
    /\ \A j \in DOMAIN registry \ {id} : registry'[j] = registry[j]
    /\ [registry'[id] EXCEPT !.vm_status = "", !.vm_last_sync = 0]
         = [registry[id] EXCEPT !.vm_status = "", !.vm_last_sync = 0]
    /\ registry'[id] # registry[id] => registry'[id].vm_status = "Deleted"
    /\ ( \/ << registry[id].name, registry[id].vmid >> \in active
         \/ registry[id].vm_status = "Deleted" )
       => registry'[id] = registry[id] /\ log'.events = << >>
C8_SweepFrame ==
    [][ (pc = "sweep" /\ idx <= Len(sweepList) /\ idx' = idx + 1)
        => SweepFrame(sweepList[idx]) ]_vars

\* the sweep has retired a record that owns a disk and an interface
C8_Witness ==
    /\ log.step = "sweep"
    /\ \E k \in 1..Len(log.events) : log.events[k].op = "mark" /\ log.events[k].ok
    /\ registry[log.target].vm_status = "Deleted"
    /\ \E d \in disks : d.vm = log.target
    /\ \E f \in ifaces : f.vm = log.target

\* C9: the sweep never marks a record whose vmid is the vmid of an identity
\* of the active set.
C9_SweepRetiresOnlyOrphans ==
    ( /\ log.step = "sweep"
      /\ \E k \in 1..Len(log.events) : log.events[k].op = "mark" /\ log.events[k].ok )
    => log.vmid \notin { a[2] : a \in active }

\* C10: no name sync_to_netbox writes (create, update, conflict rename) is
\* held by another record of the target cluster when it is written (stated
\* for registries that hold the target cluster only and passes in which no
\* registry call failed for transport reasons).
C10_UniqueNamesWritten ==
    ( log.step = "vm" /\ ~passFaulty /\ SingleClusterRegistry )
    => \A k \in 1..Len(log.events) : ~log.events[k].held

\* a step of the loop of sync_to_netbox is being taken
LoopStep == pc = "sync" /\ idx <= Len(sel) /\ processed' = processed + 1

\* C11: when no record of the target cluster with another vmid is named
\* exactly the source name as the VM is processed, and no registry call of
\* the pass failed for transport reasons, the name written for the VM (by
\* create or update) is the source name.
C11_BareNameWithoutCollision ==
    [][ ( /\ LoopStep
          /\ ~passFaulty'
          /\ ~\E id \in InTarget(registry) :
                 /\ registry[id].vmid # sel[idx].vmid
                 /\ registry[id].name = sel[idx].name )
        => \A k \in 1..Len(log'.events) :
              log'.events[k].op \in {"create", "update"}
              => log'.events[k].name = sel[idx].name ]_vars

\* C12: whatever registry calls fail, once sync_to_netbox has begun its loop
\* it processes every entity of the snapshot: when the loop is over the
\* processed count is the snapshot length.
C12_FailureIsolation ==
    ( passNo >= 1 /\ pc # "sync" /\ processed >= 1 ) => processed = Len(sel)

\* C13: when sync_to_netbox has returned its counts and no registry call of
\* mark_orphaned_vms_as_deleted raises, the sweep returns its counts too and
\* SyncWorker.run does not end in the error signal.
C13_AlwaysSummary ==
    [][ ( pc = "sync" /\ idx > Len(sel) /\ faults' = faults )
        => outcome' # "error" ]_vars

CreateFailed ==
    \E k \in 1..Len(log.events) : log.events[k].op = "create" /\ ~log.events[k].ok
UpdateFailed ==
    \E k \in 1..Len(log.events) :
        log.events[k].op \in {"update", "update_false"} /\ ~log.events[k].ok
\* sync_vm_interfaces, sync_vm_virtual_disks were called for the entity
ChildrenCalled(op) == \E k \in 1..Len(log.events) : log.events[k].op = op
FinalName ==
    log.events[CHOOSE k \in 1..Len(log.events) :
                   log.events[k].op \in {"create", "update", "update_false"}].name

C16_InterfaceOrphansDeleted ==
    ( log.step = "vm" /\ pc = "sync" /\ NoFailureSoFar
      /\ log.target # 0 /\ ChildrenCalled("ifaces") )
    => \A f \in ifaces :
          f.vm = log.target
          => \E k \in 1..Len(sel[idx - 1].proxmox_network_interfaces) :
                sel[idx - 1].proxmox_network_interfaces[k].name = f.name

SourceNames == { nodeSrc[k] : k \in 1..Len(nodeSrc) }
NodeRunEnded == npc = "idle" /\ nodeRuns >= 1
MgmtOnlyKept ==
    \A n \in DOMAIN devAtStart :
        devAtStart[n] = TRUE => (n \in DOMAIN devIfaces /\ devIfaces[n] = TRUE)
OrphansDeleted ==
    \A n \in DOMAIN devAtStart :
        (devAtStart[n] # TRUE /\ n \notin SourceNames) => n \notin DOMAIN devIfaces

Handled == sel[idx - 1]
DisksNamed(dsk, n) == { x \in dsk : x.name = n }
InvalidSize(p) == p.size_mb = NoSize \/ ~(p.size_mb >= 1)

\* C18: for a source disk whose size is None or not positive, a step of the
\* loop neither creates, nor updates, nor deletes a registry disk of that name.
C18_InvalidSizeSkipped ==
    [][ LoopStep
        => \A k \in 1..Len(sel[idx].proxmox_virtual_disks) :
              LET p == sel[idx].proxmox_virtual_disks[k]
              IN InvalidSize(p) => DisksNamed(disks', p.name) = DisksNamed(disks, p.name)
      ]_vars

\* the disks of an existing record were reconciled against a source whose
\* disk scsi0 has an invalid size, and the record's disk scsi0 is as it was
C18_Witness ==
    /\ log.step = "vm" /\ pc = "sync" /\ log.target # 0
    /\ \E k \in 1..Len(log.events) : log.events[k].op = "disks" /\ log.events[k].ok
    /\ \E k \in 1..Len(Handled.proxmox_virtual_disks) :
          /\ Handled.proxmox_virtual_disks[k].name = "scsi0"
          /\ InvalidSize(Handled.proxmox_virtual_disks[k])
    /\ DiskRec(log.target, "scsi0", 10) \in disks

RECURSIVE SumOfValid(_, _)
SumOfValid(ds, k) ==
    IF k = 0 THEN 0
    ELSE SumOfValid(ds, k - 1) + (IF InvalidSize(ds[k]) THEN 0 ELSE ds[k].size_mb)

Written(op) ==
    \E k \in 1..Len(log.events) : log.events[k].op = op /\ log.events[k].ok
WrittenId(op) ==
    log.events[CHOOSE k \in 1..Len(log.events) :
                   log.events[k].op = op /\ log.events[k].ok].id

\* C19: the record a step creates or updates gets as its 'disk' value the sum
\* of the positive sizes of the source disks when the source disk list is not
\* empty (0 when none is positive); when the list is empty the payload has no
\* 'disk' key: a created record has no disk value and an updated one keeps its own.
C19_DiskAggregate ==
    [][ LoopStep
        => LET ds == sel[idx].proxmox_virtual_disks
               total == SumOfValid(ds, Len(ds))
           IN /\ Written("create")' =>
                    registry'[WrittenId("create")'].disk
                        = IF Len(ds) = 0 THEN << >> ELSE << total >>
              /\ Written("update")' =>
                    registry'[WrittenId("update")'].disk
                        = IF Len(ds) = 0 THEN registry[WrittenId("update")'].disk
                          ELSE << total >>
      ]_vars

\* a record was updated from a source with two disks, one of them invalid
C19_Witness ==
    /\ log.step = "vm" /\ pc = "sync" /\ Written("update")
    /\ Len(Handled.proxmox_virtual_disks) = 2
    /\ InvalidSize(Handled.proxmox_virtual_disks[1])
    /\ registry[log.target].disk = << 5 >>

RECURSIVE SumOfRecords(_)
SumOfRecords(S) ==
    IF S = {} THEN 0
    ELSE LET x == CHOOSE y \in S : TRUE IN x.size + SumOfRecords(S \ {x})

\* C20: after a VM was reconciled without registry failures, the disk total
\* of its record equals the sum of the sizes of the disk records the
\* registry holds for it (no total counting as 0).
C20_NoAggregateMismatch ==
    ( log.step = "vm" /\ pc = "sync" /\ NoFailureSoFar /\ ChildrenCalled("disks") )
    => \A id \in DOMAIN registry :
          ( \E k \in 1..Len(log.events) :
               log.events[k].op = "disks" /\ log.events[k].id = id )
          => LET total == IF registry[id].disk = << >> THEN 0 ELSE registry[id].disk[1]
             IN total = SumOfRecords({ x \in disks : x.vm = id })

\* the tags a 'tags' string of the source names
SourceTags(str) ==
    CASE str = "" -> {}
      [] str = "prod" -> {"prod"}
      [] str = "prod;db" -> {"prod", "db"}
      [] str = " db ;" -> {"db"}

\* C21: when a step of the loop successfully updates a matched VM record and
\* no registry call of the pass has failed, the record's tag set is the set
\* of tags of the source entity, the empty set included.
C21_TagsConverge ==
    [][ ( LoopStep /\ ~passFaulty' /\ Written("update")' )
        => registry'[WrittenId("update")'].tags = SourceTags(sel[idx].proxmox_tags)
      ]_vars

IpStepDone == ipLog.path # "none" /\ ipLog.X # NoCidr /\ ~ipLog.err
HoldersOf(X) == { r \in ips : r.address = X }
Assignable(X) == X.ip # network_address(X) /\ X.ip # broadcast_address(X)

\* C22 as stated: after the IP step of an interface whose source reports
\* CIDR X completes without a registry error, the registry holds exactly one
\* address X, assigned to that interface.
C22_IpTakeoverAnyAddress ==
    IpStepDone => HoldersOf(ipLog.X) = { IpRec(ipLog.X, ipLog.otype, ipLog.iface) }

\* C22: after the IP step of an interface whose source reports a CIDR X that
\* is neither the network nor the broadcast address of its subnet completes
\* without a registry error, the registry holds exactly one address X,
\* assigned to that interface (object type and id).
C22_IpTakeover ==
    ( IpStepDone /\ Assignable(ipLog.X) )
    => HoldersOf(ipLog.X) = { IpRec(ipLog.X, ipLog.otype, ipLog.iface) }

\* the IP step of the node's interface 1 has completed for 10.0.0.5/30, which
\* that interface now holds, while a VM interface holds 10.0.0.5/32
C22_Witness ==
    /\ IpStepDone /\ ipLog.path = "node" /\ ipLog.iface = 1
    /\ ipLog.X = Cidr(5, 30)
    /\ IpRec(ipLog.X, NETBOX_OBJECT_TYPE_DCIM_INTERFACE, 1) \in ips
    /\ IpRec(Cidr(5, 32), NETBOX_OBJECT_TYPE_VMINTERFACE, 1) \in ips

\* C23: no IP step creates or reassigns an address that is the network
\* address or the broadcast address of its own subnet.
C23_NoNetworkOrBroadcast ==
    [][ \A r \in ips' \ ips : Assignable(r.address) ]_vars


\* ------------------------------------------- claims on MAC and VLAN handling
\* the last interface step processed its interface (the source had a MAC)
\* and no registry request of the step failed
NicProcessed == nicLog.n > 0 /\ nicLog.p_mac # "" /\ ~nicLog.err

\* C24: after sync_vm_interfaces has processed a source interface without a
\* registry failure, the interface is in mode "access" with the VLAN of the
\* source's tag as its untagged VLAN when the source reports a tag, and has
\* neither a mode nor an untagged VLAN when the source reports none
C24_VlanHandling ==
    NicProcessed =>
        IF nicLog.p_vlan_tag # 0
        THEN /\ nic.exists /\ nic.mode = "access"
             /\ nicLog.p_vlan_tag \in vlans
             /\ nic.untagged_vlan = VlanId(nicLog.p_vlan_tag)
        ELSE nic.mode = "none" /\ nic.untagged_vlan = 0

\* the MAC object the last step got back, as the step found it
ReturnedExisting == { m \in nicLog.macs : m.id = nicLog.ret }

\* C29: get_or_create_and_assign_netbox_mac_address returns an object that
\* existed before the call only if it holds the requested MAC string and is
\* assigned to the target interface (same id, same type), and the call
\* leaves every object that existed before it as it was
C29_MacReuseExact ==
    nicLog.resolved =>
        /\ \A m \in ReturnedExisting :
              /\ m.mac_address = upper(nicLog.p_mac)
              /\ m.assigned_object_id = NicId
              /\ m.assigned_object_type = NETBOX_OBJECT_TYPE_VMINTERFACE
        /\ nicLog.macs \subseteq macs

\* the step reused the interface's own object while another object with the
\* same MAC string, not assigned to the interface, stood beside it
C29_Witness ==
    /\ nicLog.resolved /\ nicLog.ret # 0
    /\ \E m \in ReturnedExisting : \E o \in nicLog.macs :
          /\ o.id # m.id /\ o.mac_address = m.mac_address
          /\ o.assigned_object_id # NicId
          /\ o \in macs

\* C30: when the MAC object cannot be resolved for an interface that exists
\* already (the call returns None), sync_vm_interfaces leaves the
\* interface's primary_mac_address as it was
C30_AbandonedMacKeepsLink ==
    ( nicLog.existed /\ nicLog.resolved /\ nicLog.ret = 0 )
        => nic.primary_mac_address = nicLog.nic.primary_mac_address

\* ------------------------------------------------------ claims on the GUI
\* C25: whatever the user does with the controls that are enabled, and in
\* whatever order workers end and their signals arrive, at most one
\* SyncWorker or NodeSyncWorker is running at any time
C25_OneWorkerAtATime == gui.running["sync"] + gui.running["node"] <= 1

\* --------------------------------------------------- claims on conflicts
\* C26: when a create is refused for uniqueness, the engine re-fetches the
\* object exactly once, uses the object if the registry holds it, and
\* gives up only if it does not
C26_ConflictRetry ==
    cfLog.unique => ( cfLog.refetch = 1 /\ (cfLog.ret <=> cfLog.present) )

\* ----------------------------------------------------- claims on parsing
\* the devices of the boot order that are no network devices
NonNetwork(order) == SelectSeq(order, LAMBDA d : SubSeq(d, 1, 3) # "net")
Flagged == { d.name : d \in { x \in bootCall.disks : x.is_boot_disk } }
DiskKeys == { d.name : d \in bootCall.disks }

\* C27: for a boot field "order=d1;d2;..." the disk flagged is_boot_disk is
\* the one named by the first device that is no network device, wherever it
\* stands; the bootdisk field decides only when the order names none
C27_BootDiskSelection ==
    ( bootCall.done /\ bootCall.directive ) =>
        Flagged = DiskKeys \cap
                    ( IF NonNetwork(bootCall.order) # << >>
                      THEN { NonNetwork(bootCall.order)[1] }
                      ELSE { bootCall.bootdisk } )

\* C28: "nT", "nG", "nM", "nK" and "n" give n*1048576, n*1024, n, n/1024
\* rounded to an integer and n*1024 megabytes; None, the empty string and
\* every string that does not begin with a digit give None
C28_SizeParsing ==
    sizeCall.done =>
        /\ sizeCall.plain =>
              /\ sizeCall.mb # << >>
              /\ CASE sizeCall.unit = "T" -> sizeCall.mb[1] = sizeCall.n * 1048576
                   [] sizeCall.unit = "G" -> sizeCall.mb[1] = sizeCall.n * 1024
                   [] sizeCall.unit = "M" -> sizeCall.mb[1] = sizeCall.n
                   [] sizeCall.unit = "K" ->
                        /\ 2 * (sizeCall.mb[1] * 1024 - sizeCall.n) <= 1024
                        /\ 2 * (sizeCall.n - sizeCall.mb[1] * 1024) <= 1024
                   [] OTHER -> sizeCall.mb[1] = sizeCall.n * 1024
        /\ ( \/ sizeCall.size_str = << >>
             \/ sizeCall.size_str = << "" >>
             \/ ~IsDigit(SubSeq(sizeCall.size_str[1], 1, 1)) )
              => sizeCall.mb = << >>

\* ------------------------------------------------ disk set reconciliation
DiskNamesOf(dsk, vm) == { x.name : x \in { y \in dsk : y.vm = vm } }
ValidSourceNames(ds) ==
    { ds[k].name : k \in { j \in 1..Len(ds) : ~InvalidSize(ds[j]) } }
InvalidSourceNames(ds) ==
    { ds[k].name : k \in { j \in 1..Len(ds) : InvalidSize(ds[j]) } }

\* C31: when a step of the loop has reconciled the disks of a record and the
\* registry refused no call, the names of the record's disks are the names of
\* the source disks of positive size together with the names of the disks the
\* record had before whose source entry has an invalid size, and a disk named
\* as a source disk of positive size has that size.
C31_DiskSetReconciled ==
    [][ ( LoopStep /\ Written("disks")' )
        => LET ds == sel[idx].proxmox_virtual_disks
               vm == WrittenId("disks")'
           IN /\ DiskNamesOf(disks', vm)
                    = ValidSourceNames(ds)
                      \cup (DiskNamesOf(disks, vm) \cap InvalidSourceNames(ds))
              /\ \A k \in 1..Len(ds) :
                    ~InvalidSize(ds[k])
                    => \A x \in DisksNamed(disks', ds[k].name) :
                          x.vm = vm => x.size = ds[k].size_mb
      ]_vars

\* in a second pass the disks of a record were reconciled against a source
\* whose only disk is scsi0 of a size that could not be parsed: scsi0 is kept
\* as it was and the record has no other disk
C31_Witness ==
    /\ log.step = "vm" /\ pc = "sync" /\ log.target # 0 /\ Written("disks")
    /\ passNo >= 2
    /\ Handled.proxmox_virtual_disks = << [name |-> "scsi0", size_mb |-> NoSize] >>
    /\ { x \in disks : x.vm = log.target } = { DiskRec(log.target, "scsi0", 10) }

\* ------------------------------------------------------- IP selection
\* the well-formed addresses the agent reports for the first of its interfaces
\* that has the MAC of the device, in the agent's order
ReportedAddresses ==
    LET same == { k \in 1..Len(netCall.agent) :
                    /\ netCall.agent[k].hardware_address # ""
                    /\ str_upper(netCall.agent[k].hardware_address) = str_upper(netCall.mac) }
        WellFormed(o) ==
            /\ o.ip_address # "" /\ o.prefix # << >> /\ o.ip_address_type # ""
            /\ agent_ip_interface(o.ip_address, o.prefix[1]) # << >>
    IN IF same = {} THEN << >>
       ELSE SelectSeq(netCall.agent[CHOOSE k \in same : \A j \in same : k <= j].ip_addresses,
                      WellFormed)
LeastOf(S) == CHOOSE k \in S : \A j \in S : k <= j

\* C32: for a net device with a MAC, ip_cidr is the value of "ip=" when it has
\* the form address/prefix and is not "dhcp", whatever the agent reports;
\* otherwise it is, among the addresses the agent reports for the interface
\* of the same MAC, the first IPv4 address that is not link-local, loopback or
\* multicast, else the first such IPv6 address, else the first address that is
\* neither loopback nor multicast, else none.
C32_IpSelection ==
    ( netCall.done /\ netCall.out # << >> )
    => LET A == ReportedAddresses
           Cidr_(k) == agent_ip_interface(A[k].ip_address, A[k].prefix[1])[1]
           Scoped(k) == /\ ~is_link_local(Cidr_(k)) /\ ~is_loopback(Cidr_(k))
                        /\ ~is_multicast(Cidr_(k))
           S4 == { k \in 1..Len(A) : A[k].ip_address_type = "ipv4" /\ Scoped(k) }
           S6 == { k \in 1..Len(A) : A[k].ip_address_type = "ipv6" /\ Scoped(k) }
           SAny == { k \in 1..Len(A) : ~is_loopback(Cidr_(k)) /\ ~is_multicast(Cidr_(k)) }
           got == netCall.out[1].ip_cidr
       IN IF /\ netCall.ip # << >> /\ contains(netCall.ip[1], "/")
             /\ netCall.ip[1] # "dhcp"
          THEN got = netCall.ip
          ELSE IF S4 # {} THEN got = << Cidr_(LeastOf(S4)) >>
          ELSE IF S6 # {} THEN got = << Cidr_(LeastOf(S6)) >>
          ELSE IF SAny # {} THEN got = << Cidr_(LeastOf(SAny)) >>
          ELSE got = << >>

\* without "ip=", the agent reports a link-local IPv4 address, then an IPv6
\* address and then a routable IPv4 address for the interface of the MAC,
\* which is the third interface of its answer: the third address is taken
C32_Witness ==
    /\ netCall.done /\ netCall.ip = << >> /\ Len(netCall.agent) = 3
    /\ netCall.out # << >>
    /\ Len(netCall.out[1].agent_ips) = 3
    /\ netCall.out[1].agent_ips[1].address = "169.254.1.1/16"
    /\ netCall.out[1].agent_ips[2].family = "ipv6"
    /\ netCall.out[1].ip_cidr = << "10.0.0.5/24" >>

\* ------------------------------------------------------ node MAC merge
\* the fetch over SSH was made and reported for the name a MAC that is not
\* the zero MAC
SshReported(n) ==
    /\ mergeCall.enabled
    /\ \E j \in 1..Len(mergeCall.ssh) :
          /\ mergeCall.ssh[j].ifname = n
          /\ mergeCall.ssh[j].address \notin { "", ZeroMac }
SshMacOf(n) ==
    str_upper(mergeCall.ssh[CHOOSE j \in 1..Len(mergeCall.ssh) :
                               mergeCall.ssh[j].ifname = n].address)

\* C33: the final mac_address of a node interface is the MAC found over SSH
\* (in upper case) when the MAC of the API is missing, empty or the zero MAC
\* and the fetch over SSH reported a MAC other than the zero MAC for the
\* interface's name; in every other case it is the value of the API.
C33_NodeMacMerge ==
    mergeCall.done
    => /\ Len(mergeCall.final) = Len(mergeCall.api)
       /\ \A k \in 1..Len(mergeCall.api) :
             LET primary == mergeCall.api[k].mac_address
                 n == mergeCall.api[k].name
             IN /\ mergeCall.final[k].name = n
                /\ mergeCall.final[k].mac_address
                     = IF /\ primary \in { << >>, << "" >>, << ZeroMac >> }
                          /\ SshReported(n)
                       THEN << SshMacOf(n) >> ELSE primary

\* eno1 has the zero MAC in the API and a MAC over SSH, which it gets; vmbr0
\* has a MAC in the API and another over SSH, and keeps the one of the API
C33_Witness ==
    /\ mergeCall.done /\ Len(mergeCall.api) = 2
    /\ mergeCall.api[1].mac_address = << ZeroMac >>
    /\ mergeCall.final[1].mac_address = << "AA:BB:CC:00:00:02" >>
    /\ mergeCall.api[2].mac_address = << "AA:BB:CC:00:00:01" >>
    /\ SshReported("vmbr0")
    /\ mergeCall.final[2].mac_address = << "AA:BB:CC:00:00:01" >>

\* ------------------------------------------------- the GUI's sync button
\* C35: the VM list a SyncWorker is started with was loaded from the node
\* that is selected as it is started, whose netbox_cluster_name it is given.
C35_SyncedListOfSelectedNode == gui.sync_list_node = gui.sync_scope_node

\* C36: the sync button is enabled only if the NetBox client is there and a
\* list of VMs that is not empty has been loaded from the selected node.
C36_SyncButtonGate ==
    gui.sync_button => ( gui.netbox_api /\ gui.listed /\ gui.listed_node = gui.node )

\* ---------------------------------------------------- worker completion
ResultSignal(w) ==
    IF w = "load" THEN "vm_list_ready"
    ELSE IF w = "sync" THEN "sync_complete" ELSE "node_sync_complete"
OneOutcome(e, w) == Len(e) >= 1 /\ e[1] \in { ResultSignal(w), "error" }

\* C34: a run that was started comes to its end, where it has emitted exactly
\* two signals: first either its result signal or error, then finished; before
\* finished it has emitted at most that one signal, and no run emits any other.
C34_WorkerCompletion ==
    /\ ( workerRun.pc = "started" ) ~> ( workerRun.pc = "done" )
    /\ []( workerRun.pc = "done"
           => /\ Len(workerRun.emitted) = 2
              /\ OneOutcome(workerRun.emitted, workerRun.w)
              /\ workerRun.emitted[2] = "finished" )
    /\ []( workerRun.pc = "finally"
           => Len(workerRun.emitted) = 1 /\ OneOutcome(workerRun.emitted, workerRun.w) )
    /\ []( workerRun.pc = "started" => workerRun.emitted = << >> )

\* a SyncWorker without global settings has ended with error and finished
C34_Witness ==
    /\ workerRun.pc = "done" /\ workerRun.w = "sync" /\ ~workerRun.global_settings
    /\ workerRun.emitted = << "error", "finished" >>

\* --------------------------------------------------------- batch counts
\* C37: in the tuple sync_to_netbox returns, processed is the number of the
\* entities of the snapshot, and succeeded plus failed is processed.
C37_CountsPartition ==
    pc = "sweep"
    => /\ processed = Len(sel)
       /\ succeeded + Cardinality(errs) = processed

====
